---- MODULE Spec2Model ----
(***************************************************************************)
(* Verification model of the retrieval-augmented answering pipeline:       *)
(*   backend/app/services/rag/engine.py      RAGEngine                     *)
(*   backend/app/services/cache.py           CacheService                  *)
(*   backend/app/services/ingestion/embedder.py  EmbeddingService          *)
(*   backend/app/services/rag/generator.py   ResponseGenerator             *)
(*                                                                         *)
(* Every await of an external service (network cache, durable store,       *)
(* embedding service, completion service) is one step of the calling       *)
(* coroutine, so that concurrent requests interleave there.                *)
(*                                                                         *)
(* Strings are sequences of one-character strings.  A message is           *)
(* [role, content, turn]; turn stands for the message timestamp, which is  *)
(* unique per request.  Other timestamps (created_at, updated_at) carry no *)
(* behaviour and are left out.  The hash functions used to build cache     *)
(* keys (md5) are taken to be injective: a key is its pre-image.           *)
(* The cache service hands out copies of the values it stores, except     *)
(* where a step says otherwise.  The network store is reachable or not for *)
(* a whole behaviour, and no entry expires within one.  The libraries the  *)
(* code calls (durable store client, retry decorator, completion and       *)
(* embedding clients) behave as the code expects of them; their calls may  *)
(* fail.                                                                   *)
(***************************************************************************)
EXTENDS Integers, Sequences, FiniteSets, TLC

\* ------------------------------------------------------------------ bounds
\* requests started in one behaviour of Spec
MaxTurns == 2
\* requests started in one behaviour of SpecSeq
MaxSeqTurns == 2
\* fragments the completion stream may deliver
MaxFragments == 2
\* requests made to the embedding service client in one behaviour of SpecEmbed
MaxEmbRequests == 2
\* texts in one embed_texts request
MaxTexts == 2

\* ------------------------------------------------------- program constants
\* settings.require_email_after
RequireEmailAfter == 3
\* messages[-20:]
HistoryCap == 20
\* stop_after_attempt(3)
MaxAttempts == 3
\* EmbeddingService.EMBEDDING_DIMENSIONS
EmbeddingDimensions == 3072
\* EmbeddingService.MAX_BATCH_SIZE
MaxBatchSize == 100

LeadCaptureEnabled == TRUE

None == "None"

\* the request coroutines that may run concurrently
Procs == {1, 2}
Sessions == {"s1"}
\* requests <<message, borough>>: they differ in letter case only
Requests == {<<<<"a">>, None>>, <<<<"A">>, None>>}
TurnNames == <<"t1", "t2", "t3", "t4", "t5", "t6", "t7", "t8", "t9", "t10",
               "t11", "t12", "t13", "t14", "t15", "t16">>
\* the text fragments of a completion stream, in the order of arrival
FragmentAt(i) == <<"f", TurnNames[i]>>

\* ---------------------------------------------------------------- helpers
\* dict.get(k, default)
Get(d, k, default) == IF k \in DOMAIN d THEN d[k] ELSE default

\* dict.update(upd) / store[k] = v
Update(d, upd) ==
  [k \in DOMAIN d \cup DOMAIN upd |-> IF k \in DOMAIN upd THEN upd[k] ELSE d[k]]

Put(store, k, v) ==
  [x \in DOMAIN store \cup {k} |-> IF x = k THEN v ELSE store[x]]

\* list[-n:]
LastN(s, n) == IF Len(s) <= n THEN s ELSE SubSeq(s, Len(s) - n + 1, Len(s))

\* str.lower()
LowerChar(c) == IF c = "A" THEN "a" ELSE c
Lower(s) == [i \in 1..Len(s) |-> LowerChar(s[i])]

\* str.strip() / str.split() / " ".join(...)
RECURSIVE StripLeft(_)
StripLeft(s) == IF s # <<>> /\ Head(s) = " " THEN StripLeft(Tail(s)) ELSE s
RECURSIVE StripRight(_)
StripRight(s) ==
  IF s # <<>> /\ s[Len(s)] = " " THEN StripRight(SubSeq(s, 1, Len(s) - 1)) ELSE s
Strip(s) == StripRight(StripLeft(s))
RECURSIVE SqueezeSpaces(_)
SqueezeSpaces(s) ==
  IF Len(s) < 2 THEN s
  ELSE IF s[1] = " " /\ s[2] = " " THEN SqueezeSpaces(Tail(s))
  ELSE <<s[1]>> \o SqueezeSpaces(Tail(s))

\* QueryCache._normalize_query
NormalizeQuery(q) == SqueezeSpaces(Strip(Lower(q)))

BoroughText(b) == IF b = None THEN <<"all">> ELSE <<b>>

\* CacheService.get_query_result / set_query_result: the key of a response
QueryKey(q, b) == q \o <<":">> \o BoroughText(b)


\* ------------------------------------------------------------------ state
VARIABLES
  proc,        \* the state of each request coroutine
  turns,       \* requests started so far
  redisUp,     \* whether the network cache store answers
  flips,       \* how often the network cache store went down or came back
  redisSess,   \* network store, keys session:<id>
  localSess,   \* CacheService._local_cache, keys session:<id>
  redisQuery,  \* network store, keys query:<hash>
  localQuery,  \* CacheService._local_cache, keys query:<hash>
  redisEmb,    \* network store, keys emb:<hash>
  localEmb,    \* CacheService._local_cache, keys emb:<hash>
  db,          \* durable store, table chat_sessions
  appended,    \* history: every message a session update appended, in order
  lastUpdate,  \* history: the data of the session update executed last
  torn,        \* history: sessions with an update abandoned between its writes
  emb,         \* the state of a request to the embedding service client
  embHist,     \* history: the client's requests so far, and the texts served
  retr,        \* the state of a call of HybridRetriever.retrieve
  cite,        \* the state of a call of ResponseGenerator._extract_citations
  chunker,     \* the state of a call of SemanticChunker.chunk_text
  reranker,    \* the state of a call of Reranker.rerank
  generator,   \* the state of a call of ResponseGenerator.generate_follow_ups
  cache_manager,  \* CacheManager: its in-process store and its clock
  cache_service   \* CacheService: its two stores under get, set and delete

vars == <<proc, turns, redisUp, flips, redisSess, localSess, redisQuery, localQuery,
          redisEmb, localEmb, db, appended, lastUpdate, torn, emb, embHist,
          retr, cite, chunker, reranker, generator, cache_manager,
          cache_service>>

\* the components that are called on their own
aux == <<reranker, generator, cache_manager, cache_service>>
units == <<retr, cite, chunker, aux>>

caches == <<redisSess, localSess, redisQuery, localQuery, redisEmb, localEmb>>

\* ---------------------------------------------------------- cache service
\* CacheService.get: the network store first, then the in-process fallback
CacheHas(redis, local, k) ==
  (redisUp /\ k \in DOMAIN redis) \/ k \in DOMAIN local

CacheGet(redis, local, k) ==
  IF redisUp /\ k \in DOMAIN redis THEN redis[k] ELSE local[k]

\* CacheService.get returns the object the fallback holds, not a copy of it
\* (cache.py 50): what the caller changes in it is changed in the fallback
FromLocal(redis, k) == ~(redisUp /\ k \in DOMAIN redis)

\* CacheService.set: the network store, or the fallback when it fails
CacheSetRedis(redis, k, v) == IF redisUp THEN Put(redis, k, v) ELSE redis
CacheSetLocal(local, k, v) == IF redisUp THEN local ELSE Put(local, k, v)

\* --------------------------------------------------------- durable store
NoRow == [exists |-> FALSE, messages |-> <<>>, query_count |-> 0, lead_id |-> None]

\* SupabaseService.create_session
NewRow == [exists |-> TRUE, messages |-> <<>>, query_count |-> 0, lead_id |-> None]

\* SupabaseService.get_session: the row as a dict
RowDict(s) ==
  [id |-> s, messages |-> db[s].messages, query_count |-> db[s].query_count,
   lead_id |-> db[s].lead_id]

\* ---------------------------------------------------------------- messages
UserMessage(q, t) == [role |-> "user", content |-> q, turn |-> TurnNames[t]]
AssistantMessage(text, t) ==
  [role |-> "assistant", content |-> text, turn |-> TurnNames[t]]

\* the text the completion service returns for a request
ResponseText(t) == <<"r", TurnNames[t]>>

\* a session stored by SeedTurns earlier requests whose cache entries expired
SeedTurns == 9
SeedName(i) == <<"p1", "p2", "p3", "p4", "p5", "p6", "p7", "p8", "p9", "p10">>[i]
SeedMessages ==
  [i \in 1..(2 * SeedTurns) |->
     IF i % 2 = 1
     THEN [role |-> "user", content |-> <<"a">>, turn |-> SeedName((i + 1) \div 2)]
     ELSE [role |-> "assistant", content |-> <<"r", SeedName(i \div 2)>>,
           turn |-> SeedName(i \div 2)]]
SeedRow ==
  [exists |-> TRUE, messages |-> SeedMessages, query_count |-> SeedTurns,
   lead_id |-> None]

\* -------------------------------------------------------------- embeddings
\* [0.0] * EMBEDDING_DIMENSIONS, and a vector the embedding service returns
ZeroVector == [kind |-> "zero", dim |-> EmbeddingDimensions, text |-> <<>>]
ModelVector(t) == [kind |-> "model", dim |-> EmbeddingDimensions, text |-> t]

\* not text or not text.strip()
IsBlank(t) == Strip(t) = <<>>

IdleEmb ==
  [pc |-> "idle", op |-> "none", texts |-> <<>>, use_cache |-> TRUE, i |-> 1,
   out |-> <<>>, todo |-> <<>>, attempts |-> 0, calls |-> 0, sets |-> {},
   called |-> {}, before |-> {}, error |-> "none"]

\* no call of the retriever, the citation extractor or the chunker is running
IdleRetr == [pc |-> "idle"]
IdleCite == [pc |-> "idle"]
IdleChunker == [pc |-> "idle"]
IdleReranker == [pc |-> "idle"]
IdleGenerator == [pc |-> "idle"]

Min(a, b) == IF a < b THEN a ELSE b

\* list[:n]
Take(s, n) == SubSeq(s, 1, Min(n, Len(s)))


\* ------------------------------------------------------ citation extraction
\* unique_citations[:5], similarity_score > 0.85, result.content[:200]
MaxCitations == 5
ScoreCutoff == 85
ParagraphCap == 200

\* context results passed to one call
MaxContext == 6

\* document names, in the order of their first use in a context; every
\* document is of the one borough
DocNames == <<"A", "b", "c", "d", "e", "f", "g", "h">>
Borough == <<"n">>
\* a context result is a chunk of relevance 0.8 under the section heading "s",
\* 200 characters long, or a chunk of relevance 0.9 without a heading, 201
\* characters long
ResultKinds ==
  {[similarity_score |-> 80, section_title |-> <<"s">>, content |-> 200],
   [similarity_score |-> 90, section_title |-> None, content |-> 201]}
\* answer texts: one names document A, one the heading, one neither
AnswerTexts == {<<"a">>, <<"S">>, <<"x">>}

\* sub in text
Contains(text, sub) ==
  \E i \in 0..(Len(text) - Len(sub)) : SubSeq(text, i + 1, i + Len(sub)) = sub

\* is_cited or result.similarity_score > 0.85 (231-239)
IsCited(result, response) ==
  \/ Contains(Lower(response), Lower(result.document_name))
  \/ Contains(Lower(response), Lower(result.borough))
  \/ /\ result.section_title # None
     /\ Contains(Lower(response), Lower(result.section_title))
  \/ result.similarity_score > ScoreCutoff

\* Citation(...) (241-249); content is kept by its length
Projection(result) ==
  [document_name |-> result.document_name, borough |-> result.borough,
   section |-> result.section_title,
   paragraph |-> IF result.content > ParagraphCap
                 THEN [chars |-> ParagraphCap, ellipsis |-> TRUE]
                 ELSE [chars |-> result.content, ellipsis |-> FALSE],
   relevance_score |-> result.similarity_score, chunk_id |-> result.chunk_id]

\* the first loop (229-250)
RECURSIVE CitedResults(_, _)
CitedResults(results, response) ==
  IF results = <<>> THEN <<>>
  ELSE (IF IsCited(Head(results), response)
        THEN <<Projection(Head(results))>> ELSE <<>>)
       \o CitedResults(Tail(results), response)

\* a variant of Dedupe that compares a citation with the one before it only
RECURSIVE DedupeAdjacent(_, _)
DedupeAdjacent(citations, seen) ==
  IF citations = <<>> THEN <<>>
  ELSE IF Head(citations).document_name \in seen
  THEN DedupeAdjacent(Tail(citations), seen)
  ELSE <<Head(citations)>>
       \o DedupeAdjacent(Tail(citations), {Head(citations).document_name})

\* the second loop (252-258)
RECURSIVE Dedupe(_, _)
Dedupe(citations, seen) ==
  IF citations = <<>> THEN <<>>
  ELSE IF Head(citations).document_name \in seen
  THEN Dedupe(Tail(citations), seen)
  ELSE <<Head(citations)>>
       \o Dedupe(Tail(citations), seen \cup {Head(citations).document_name})

\* _extract_citations (215-260)
ExtractCitations(results, response) ==
  Take(Dedupe(CitedResults(results, response), {}), MaxCitations)

\* ------------------------------------------------------------ vector index
\* settings.max_chunks_per_query
MaxChunksPerQuery == 10

\* the documents of the index do not change while requests run: it answers
\* every query but "z" with one chunk of document A, and "z" with nothing
IndexResults(q) ==
  IF Lower(q) = <<"z">> THEN <<>>
  ELSE <<[document_name |-> <<"A">>, borough |-> <<"n">>,
          section_title |-> None, similarity_score |-> 90, content |-> 201,
          chunk_id |-> 1]>>

\* reranker.rerank (reranker.py 45-53): nothing or one result stays as it is
Rerank(results) ==
  IF results = <<>> THEN results
  ELSE SubSeq(results, 1, IF Len(results) < MaxChunksPerQuery THEN Len(results)
                          ELSE MaxChunksPerQuery)

\* _format_context (generator.py 178-198)
FormatContext(results) ==
  IF results = <<>> THEN "No relevant documents found." ELSE "documents"

\* nothing was sent to the client yet
NoReply == [status |-> 0, body |-> "none"]

\* the keys the callers of the cache operations use, and no entry for a key:
\* a value is the number of the set operation that gave it (1, 2, ...); 0 is
\* None
CacheKeys == {"k1", "k2", "k3"}
NoEntry == [value |-> 0, expires |-> 0]
NoStore == [k \in CacheKeys |-> NoEntry]
NoOp == [op |-> "none", key |-> "none", up |-> TRUE, result |-> 0,
         expires |-> 0, latest |-> 0, at |-> 0]

\* the cache manager and the cache service before their first operation:
\* nothing stored, the clock at 0; latest is history, the value of the last
\* set of a key that no delete followed, and last the operation made last
IdleManager ==
  [redis |-> <<>>, local |-> <<>>, now |-> 0, ops |-> 0,
   initialized |-> FALSE, connected |-> FALSE, latest |-> <<>>,
   last |-> NoOp]
IdleService ==
  [redis |-> NoStore, local |-> NoStore, now |-> 0, ops |-> 0,
   latest |-> [k \in CacheKeys |-> 0], last |-> NoOp]

\* --------------------------------------------------------------- requests
IdleProc ==
  [pc |-> "idle", kind |-> "none", query |-> <<>>, borough |-> None,
   session |-> "s1", turn |-> 0, stages |-> <<>>, hit |-> FALSE,
   caller |-> "none", loaded |-> <<>>, sd |-> <<>>, hist |-> <<>>,
   usd |-> <<>>, umsgs |-> <<>>, text |-> <<>>,
   qc |-> 0, req_email |-> FALSE, failure |-> "none",
   gen_calls |-> 0, yielded |-> <<>>, consumed |-> FALSE,
   wrote_db |-> FALSE, wrote_cache |-> FALSE, wrote_resp |-> FALSE,
   response |-> <<>>,
   idx_calls |-> 0, results |-> <<>>,
   context |-> "none", citations |-> <<>>, analytics |-> "none",
   alias |-> FALSE,
   endpoint |-> "none", message |-> <<>>, errtext |-> "none",
   client |-> NoReply]

Init ==
  /\ proc = [p \in Procs |-> IdleProc]
  /\ turns = 0
  /\ redisUp \in BOOLEAN
  /\ flips = 0
  /\ redisSess = <<>> /\ localSess = <<>>
  /\ redisQuery = <<>> /\ localQuery = <<>>
  /\ redisEmb = <<>> /\ localEmb = <<>>
  /\ db \in [Sessions -> {NoRow, SeedRow}]
  /\ appended = [s \in Sessions |-> db[s].messages]
  /\ lastUpdate = [s \in Sessions |->
                    [turn |-> "t0", messages |-> db[s].messages,
                     query_count |-> db[s].query_count]]
  /\ torn = {}
  /\ emb = IdleEmb
  /\ embHist = [requests |-> 0, served |-> {}]
  /\ retr = IdleRetr
  /\ cite = IdleCite
  /\ chunker = IdleChunker
  /\ reranker = IdleReranker
  /\ generator = IdleGenerator
  /\ cache_manager = IdleManager
  /\ cache_service = IdleService

Set(p, r) == proc' = [proc EXCEPT ![p] = r]

\* what stays of a request once it has ended: its locals are gone
Ended(r, pc) ==
  [r EXCEPT !.pc = pc, !.caller = "none", !.loaded = <<>>, !.sd = <<>>,
            !.hist = <<>>, !.usd = <<>>, !.umsgs = <<>>, !.analytics = "none",
            !.alias = FALSE]

\* an exception leaves the coroutine (process_query logs and re-raises it,
\* engine.py 187-193)
Fail(p, r, cause) == Set(p, [Ended(r, "failed") EXCEPT !.failure = cause])

Terminal == {"idle", "done", "failed", "cancelled"}

\* process_query entry (engine.py 63-65)
StartQuery(p, max) ==
  /\ proc[p].pc \in Terminal
  /\ turns < max
  /\ \E req \in Requests, s \in Sessions :
       Set(p, [IdleProc EXCEPT !.pc = "cache_check", !.kind = "query",
                               !.query = req[1], !.borough = req[2],
                               !.session = s, !.turn = turns + 1])
  /\ turns' = turns + 1
  /\ UNCHANGED <<redisUp, flips, caches, db, appended, lastUpdate, torn, emb, embHist, units>>

\* Step 1: _check_cache (245-254); a hit returns the cached response at once
\* (76-79)
CheckCache(p) ==
  LET r == proc[p]
      k == QueryKey(r.query, r.borough)
  IN /\ r.pc = "cache_check"
     /\ IF CacheHas(redisQuery, localQuery, k)
        THEN Set(p, [Ended(r, "done") EXCEPT !.hit = TRUE,
                       !.stages = <<"cache-check", "respond">>,
                       !.response = [CacheGet(redisQuery, localQuery, k)
                                       EXCEPT !.session_id = r.session]])
        ELSE Set(p, [r EXCEPT !.pc = "sess_cache", !.caller = "query",
                       !.stages = <<"cache-check">>])
     /\ UNCHANGED <<turns, redisUp, flips, caches, db, appended, lastUpdate, torn, emb, embHist, units>>

\* a variant of Enter in which a stage is entered twice
EnterTwice(r, stage) ==
  IF r.kind = "query"
  THEN [r EXCEPT !.stages = Append(Append(r.stages, stage), stage)] ELSE r

\* ---- _get_session (engine.py 274-307), shared by its three callers
\* the stages a request has entered (process_query only)
Enter(r, stage) ==
  IF r.kind = "query" THEN [r EXCEPT !.stages = Append(r.stages, stage)] ELSE r

\* the loaded session goes back to the caller: _update_session goes on to its
\* durable write (317); process_query computes query_count (83) and runs
\* extract_query_metadata (86), a pure function, up to the embedding call
Return(p, r, loaded) ==
  LET msgs == Get(loaded, "messages", <<>>)
  IN IF r.caller = "update"
     THEN Set(p, [r EXCEPT !.pc = "upd_db", !.usd = loaded, !.umsgs = msgs,
                    !.loaded = <<>>])
     ELSE Set(p, [Enter(r, "metadata-extract") EXCEPT
                    !.pc = "embed", !.sd = loaded, !.hist = msgs,
                    !.qc = Get(loaded, "query_count", 0) + 1,
                    !.loaded = <<>>])

\* cache_service.get_session (280-285)
GetSessionCache(p) ==
  LET r0 == proc[p]
      r == Enter(r0, IF r0.caller = "update" THEN "session-update"
                     ELSE "history-load")
      s == r.session
  IN /\ r.pc = "sess_cache"
     /\ IF CacheHas(redisSess, localSess, s)
        THEN Return(p, [r EXCEPT !.alias = FromLocal(redisSess, s)],
                    CacheGet(redisSess, localSess, s))
        ELSE Set(p, [r EXCEPT !.pc = "sess_db"])
     /\ UNCHANGED <<turns, redisUp, flips, caches, db, appended, lastUpdate, torn, emb, embHist, units>>

\* supabase_service.get_session (288-289)
GetSessionDb(p) ==
  LET r == proc[p]
      s == r.session
  IN /\ r.pc = "sess_db"
     /\ \/ Fail(p, r, "durable")
        \/ /\ db[s].exists
           /\ Set(p, [r EXCEPT !.pc = "sess_db_wb", !.loaded = RowDict(s)])
        \/ /\ ~db[s].exists
           /\ Set(p, [r EXCEPT !.pc = "sess_create"])
     /\ UNCHANGED <<turns, redisUp, flips, caches, db, appended, lastUpdate, torn, emb, embHist, units>>

\* a variant of GetSessionWriteBack that returns the fetched session without
\* writing it to the cache
GetSessionNoWriteBack(p) ==
  LET r == proc[p]
  IN /\ r.pc = "sess_db_wb"
     /\ Return(p, r, r.loaded)
     /\ UNCHANGED <<turns, redisUp, flips, caches, db, appended, lastUpdate, torn,
                    emb, embHist, units>>

\* cache_service.set_session(session_id, db_session) (294-295)
GetSessionWriteBack(p) ==
  LET r == proc[p]
      s == r.session
  IN /\ r.pc = "sess_db_wb"
     /\ redisSess' = CacheSetRedis(redisSess, s, r.loaded)
     /\ localSess' = CacheSetLocal(localSess, s, r.loaded)
     /\ Return(p, [r EXCEPT !.alias = ~redisUp], r.loaded)
     /\ UNCHANGED <<turns, redisUp, flips, redisQuery, localQuery, redisEmb, localEmb,
                    db, appended, lastUpdate, torn, emb, embHist, units>>

\* new_session and supabase_service.create_session (298-304); the session id
\* is the key of the table, so a second insert of it is refused
CreateSession(p) ==
  LET r == proc[p]
      s == r.session
      new == [id |-> s, messages |-> <<>>, query_count |-> 0]
  IN /\ r.pc = "sess_create"
     /\ \/ Fail(p, r, "durable") /\ UNCHANGED db
        \/ /\ ~db[s].exists
           /\ db' = [db EXCEPT ![s] = NewRow]
           /\ Set(p, [r EXCEPT !.pc = "sess_create_wb", !.loaded = new])
     /\ UNCHANGED <<turns, redisUp, flips, caches, appended, lastUpdate, torn, emb, embHist, units>>

\* cache_service.set_session(session_id, new_session) (305-307)
CreateSessionWriteBack(p) ==
  LET r == proc[p]
      s == r.session
  IN /\ r.pc = "sess_create_wb"
     /\ redisSess' = CacheSetRedis(redisSess, s, r.loaded)
     /\ localSess' = CacheSetLocal(localSess, s, r.loaded)
     /\ Return(p, [r EXCEPT !.alias = ~redisUp], r.loaded)
     /\ UNCHANGED <<turns, redisUp, flips, redisQuery, localQuery, redisEmb, localEmb,
                    db, appended, lastUpdate, torn, emb, embHist, units>>

\* ---- retrieval
\* a variant of EmbedQuery that sends a blank text to the embedding service
EmbedQueryBlank(p) ==
  LET r == Enter(proc[p], "retrieve")
      q == r.query
  IN /\ r.pc = "embed"
     /\ IF CacheHas(redisEmb, localEmb, q)
        THEN /\ Set(p, [r EXCEPT !.pc = "vector_search"])
             /\ UNCHANGED <<redisEmb, localEmb>>
        ELSE \/ /\ Fail(p, r, "embedding")
                /\ UNCHANGED <<redisEmb, localEmb>>
             \/ /\ Set(p, [r EXCEPT !.pc = "vector_search"])
                /\ redisEmb' = CacheSetRedis(redisEmb, q, ModelVector(q))
                /\ localEmb' = CacheSetLocal(localEmb, q, ModelVector(q))
     /\ UNCHANGED <<turns, redisUp, flips, redisSess, localSess, redisQuery, localQuery,
                    db, appended, lastUpdate, torn, emb, embHist, units>>

\* Step 4, retriever.retrieve: embedding_service.embed_text(query)
\* (embedder.py 51-67): empty text is refused; a cached vector is used;
\* otherwise the service is called (with its retries) and the vector cached
EmbedQuery(p) ==
  LET r == Enter(proc[p], "retrieve")
      q == r.query
  IN /\ r.pc = "embed"
     /\ IF Strip(q) = <<>>
        THEN Fail(p, r, "input") /\ UNCHANGED <<redisEmb, localEmb>>
        ELSE IF CacheHas(redisEmb, localEmb, q)
        THEN /\ Set(p, [r EXCEPT !.pc = "vector_search"])
             /\ UNCHANGED <<redisEmb, localEmb>>
        ELSE \/ /\ Fail(p, r, "embedding")
                /\ UNCHANGED <<redisEmb, localEmb>>
             \/ /\ Set(p, [r EXCEPT !.pc = "vector_search"])
                /\ redisEmb' = CacheSetRedis(redisEmb, q, ModelVector(q))
                /\ localEmb' = CacheSetLocal(localEmb, q, ModelVector(q))
     /\ UNCHANGED <<turns, redisUp, flips, redisSess, localSess, redisQuery, localQuery,
                    db, appended, lastUpdate, torn, emb, embHist, units>>

\* a variant of VectorSearch that takes an empty candidate set for an error
VectorSearchNoResults(p) ==
  LET r == proc[p]
  IN /\ r.pc = "vector_search"
     /\ \/ Fail(p, [r EXCEPT !.idx_calls = @ + 1], "vector-index")
        \/ /\ IndexResults(r.query) = <<>>
           /\ Fail(p, [r EXCEPT !.idx_calls = @ + 1], "no-results")
        \/ /\ IndexResults(r.query) # <<>>
           /\ Set(p, [Enter(r, "rerank") EXCEPT
                        !.pc = IF r.kind = "query" THEN "generate"
                               ELSE "stream_open",
                        !.idx_calls = @ + 1,
                        !.results = Rerank(IndexResults(r.query))])
     /\ UNCHANGED <<turns, redisUp, flips, caches, db, appended, lastUpdate, torn, emb, embHist, units>>

\* supabase_service.vector_search (retriever.py 113-122), then Step 5,
\* reranker.rerank, which makes no external call
VectorSearch(p) ==
  LET r == proc[p]
  IN /\ r.pc = "vector_search"
     /\ \/ Fail(p, [r EXCEPT !.idx_calls = @ + 1], "vector-index")
        \/ Set(p, [Enter(r, "rerank") EXCEPT
                     !.pc = IF r.kind = "query" THEN "generate"
                            ELSE "stream_open",
                     !.idx_calls = @ + 1,
                     !.results = Rerank(IndexResults(r.query))])
     /\ UNCHANGED <<turns, redisUp, flips, caches, db, appended, lastUpdate, torn, emb, embHist, units>>

\* a variant of Generate that calls the completion service again when it fails
GenerateRetry(p) ==
  LET r == proc[p]
  IN /\ r.pc = "generate"
     /\ \/ Set(p, [r EXCEPT !.gen_calls = r.gen_calls + 1])
        \/ Set(p, [Enter(r, "generate") EXCEPT
                     !.pc = IF r.hist = <<>> THEN "sess_cache" ELSE "suggest",
                     !.caller = "update",
                     !.text = ResponseText(r.turn),
                     !.context = FormatContext(r.results),
                     !.citations = ExtractCitations(r.results, ResponseText(r.turn)),
                     !.gen_calls = r.gen_calls + 1])
     /\ UNCHANGED <<turns, redisUp, flips, caches, db, appended, lastUpdate, torn, emb, embHist, units>>

\* ---- generation
\* Step 6: generator.generate (generator.py 56-84), one completion call;
\* Step 7: _generate_suggestions (349-371) answers a first query with its
\* fixed defaults and calls the completion service for a follow-up
Generate(p) ==
  LET r == Enter(proc[p], "generate")
  IN /\ r.pc = "generate"
     /\ \/ Fail(p, [r EXCEPT !.gen_calls = r.gen_calls + 1,
                              !.context = FormatContext(r.results)],
                 "completion")
        \/ Set(p, [r EXCEPT !.pc = IF r.hist = <<>> THEN "sess_cache"
                                   ELSE "suggest",
                     !.caller = "update",
                     !.text = ResponseText(r.turn),
                     !.context = FormatContext(r.results),
                     !.citations = ExtractCitations(r.results, ResponseText(r.turn)),
                     !.gen_calls = r.gen_calls + 1])
     /\ UNCHANGED <<turns, redisUp, flips, caches, db, appended, lastUpdate, torn, emb, embHist, units>>

\* generator.generate_follow_ups (generator.py 148-176): its completion call
Suggest(p) ==
  LET r == proc[p]
  IN /\ r.pc = "suggest"
     /\ \/ Fail(p, r, "follow-ups")
        \/ Set(p, [r EXCEPT !.pc = "sess_cache"])
     /\ UNCHANGED <<turns, redisUp, flips, caches, db, appended, lastUpdate, torn, emb, embHist, units>>

\* ---- Step 8: _update_session (309-347), after its _get_session
\* a variant of NewMessages that appends the assistant message only
NewMessagesAssistantOnly(r) == <<AssistantMessage(r.text, r.turn)>>

\* the two messages of the turn, appended and cut to the last 20 (320-336)
NewMessages(r) ==
  <<UserMessage(r.query, r.turn), AssistantMessage(r.text, r.turn)>>

\* a variant of UpdatedMessages that keeps the oldest messages
UpdatedMessagesOldest(r) ==
  LET all == r.umsgs \o NewMessages(r)
  IN IF Len(all) <= HistoryCap THEN all ELSE SubSeq(all, 1, HistoryCap)


UpdatedMessages(r) == LastN(r.umsgs \o NewMessages(r), HistoryCap)

\* a variant of UpdateSessionDb with optimistic locking: the write is refused
\* when the row changed since this request loaded the session
UpdateSessionDbLocked(p) ==
  LET r == proc[p]
      s == r.session
      updated == [messages |-> UpdatedMessages(r), query_count |-> r.qc]
  IN /\ r.pc = "upd_db"
     /\ IF db[s].messages # r.umsgs
        THEN /\ Fail(p, r, "conflict")
             /\ UNCHANGED <<db, appended, lastUpdate>>
        ELSE /\ db' = [db EXCEPT ![s] =
                         [db[s] EXCEPT !.messages = updated.messages,
                                       !.query_count = updated.query_count]]
             /\ appended' = [appended EXCEPT ![s] = appended[s] \o NewMessages(r)]
             /\ lastUpdate' = [lastUpdate EXCEPT ![s] =
                                 [turn |-> TurnNames[r.turn],
                                  messages |-> updated.messages,
                                  query_count |-> updated.query_count]]
             /\ Set(p, [r EXCEPT !.pc = "upd_cache", !.wrote_db = TRUE,
                          !.usd = Update(r.usd, updated), !.umsgs = <<>>])
     /\ UNCHANGED <<turns, redisUp, flips, caches, torn, emb, embHist, units>>

\* supabase_service.update_session and session_data.update (339-346)
UpdateSessionDb(p) ==
  LET r == proc[p]
      s == r.session
      updated == [messages |-> UpdatedMessages(r), query_count |-> r.qc]
  IN /\ r.pc = "upd_db"
     /\ \/ /\ Fail(p, r, "session-write")
           /\ UNCHANGED <<db, appended, lastUpdate, torn>>
        \/ /\ db' = [db EXCEPT ![s] =
                       IF db[s].exists
                       THEN [db[s] EXCEPT !.messages = updated.messages,
                                          !.query_count = updated.query_count]
                       ELSE db[s]]
           /\ appended' = [appended EXCEPT ![s] = appended[s] \o NewMessages(r)]
           /\ lastUpdate' = [lastUpdate EXCEPT ![s] =
                               [turn |-> TurnNames[r.turn],
                                messages |-> updated.messages,
                                query_count |-> updated.query_count]]
           /\ Set(p, [r EXCEPT !.pc = "upd_cache", !.wrote_db = TRUE,
                        !.usd = Update(r.usd, updated), !.umsgs = <<>>])
     /\ UNCHANGED <<turns, redisUp, flips, caches, torn, emb, embHist, units>>

\* cache_service.set_session(session_id, session_data) (347); the streaming
\* request ends here (236-243). CacheService.set serializes the value first
\* (cache.py 59, outside its try): a record that json.dumps refuses, as it
\* refuses the datetime timestamps of ChatMessage.model_dump(), makes the
\* call raise TypeError. session_data may be the very dict the in-process
\* fallback holds (alias: it was read from the fallback, cache.py 50, or put
\* there by _get_session, cache.py 70), which session_data.update (346) has
\* then changed already.
UpdateSessionCache(p) ==
  LET r == proc[p]
      s == r.session
  IN /\ r.pc = "upd_cache"
     /\ \/ /\ redisSess' = CacheSetRedis(redisSess, s, r.usd)
           /\ localSess' = IF r.alias THEN Put(localSess, s, r.usd)
                           ELSE CacheSetLocal(localSess, s, r.usd)
           /\ Set(p, [(IF r.kind = "query" THEN [r EXCEPT !.pc = "analytics"]
                        ELSE Ended(r, "done"))
                         EXCEPT !.wrote_cache = TRUE, !.usd = <<>>])
           /\ UNCHANGED torn
        \/ /\ Fail(p, r, "serialization")
           /\ UNCHANGED <<redisSess, localSess>>
           /\ torn' = torn \cup {s}
        \/ /\ r.alias
           /\ Fail(p, [r EXCEPT !.wrote_cache = TRUE], "serialization")
           /\ localSess' = Put(localSess, s, r.usd)
           /\ UNCHANGED <<redisSess, torn>>
     /\ UNCHANGED <<turns, redisUp, flips, redisQuery, localQuery, redisEmb, localEmb,
                    db, appended, lastUpdate, emb, embHist, units>>

\* Step 9: requires_email (143-147)
RequiresEmail(r) ==
  /\ LeadCaptureEnabled
  /\ r.qc >= RequireEmailAfter
  /\ Get(r.sd, "lead_id", None) = None

\* a variant of LogAnalytics that lets the failure of the write out
LogAnalyticsRaises(p) ==
  LET r == proc[p]
  IN /\ r.pc = "analytics"
     /\ \/ Set(p, [r EXCEPT !.pc = "cache_write",
                      !.req_email = RequiresEmail(r), !.analytics = "logged"])
        \/ Fail(p, r, "analytics")
     /\ UNCHANGED <<turns, redisUp, flips, caches, db, appended, lastUpdate, torn, emb, embHist, units>>

\* Step 10: _log_analytics (373-406); a failed write is logged and swallowed
LogAnalytics(p) ==
  LET r == proc[p]
  IN /\ r.pc = "analytics"
     /\ \E ok \in BOOLEAN :
          Set(p, [r EXCEPT !.pc = "cache_write",
                    !.req_email = RequiresEmail(r),
                    !.analytics = IF ok THEN "logged" ELSE "failed"])
     /\ UNCHANGED <<turns, redisUp, flips, caches, db, appended, lastUpdate, torn, emb, embHist, units>>

\* the ChatResponse built at 164-174
BuildResponse(r) ==
  [session_id |-> r.session, message |-> r.text, citations |-> r.citations,
   query_count |-> r.qc, requires_email |-> r.req_email,
   turn |-> TurnNames[r.turn]]

\* a variant of ShouldCache without the test of requires_email
ShouldCacheAlways(response) == TRUE

\* _cache_response (256-272): personalized responses are not cached
ShouldCache(response) == ~response.requires_email

\* the response is built, cached and returned (164-185)
CacheResponse(p) ==
  LET r == Enter(Enter(proc[p], "cache-write"), "respond")
      k == QueryKey(r.query, r.borough)
      response == BuildResponse(r)
  IN /\ r.pc = "cache_write"
     /\ IF ShouldCache(response)
        THEN /\ redisQuery' = CacheSetRedis(redisQuery, k, response)
             /\ localQuery' = CacheSetLocal(localQuery, k, response)
        ELSE UNCHANGED <<redisQuery, localQuery>>
     /\ Set(p, [Ended(r, "done") EXCEPT
                  !.response = response, !.wrote_resp = ShouldCache(response)])
     /\ UNCHANGED <<turns, redisUp, flips, redisSess, localSess, redisEmb, localEmb,
                    db, appended, lastUpdate, torn, emb, embHist, units>>

\* ---- process_streaming_query (195-243)
StartStream(p, max) ==
  /\ proc[p].pc \in Terminal
  /\ turns < max
  /\ \E req \in Requests, s \in Sessions :
       Set(p, [IdleProc EXCEPT !.pc = "sess_cache", !.kind = "stream",
                               !.caller = "stream",
                               !.query = req[1], !.borough = req[2],
                               !.session = s, !.turn = turns + 1])
  /\ turns' = turns + 1
  /\ UNCHANGED <<redisUp, flips, caches, db, appended, lastUpdate, torn, emb, embHist, units>>

\* generator.generate_streaming: the completion request (generator.py 106-115)
StreamOpen(p) ==
  LET r == proc[p]
  IN /\ r.pc = "stream_open"
     /\ \/ Fail(p, [r EXCEPT !.context = FormatContext(r.results)], "completion")
        \/ Set(p, [r EXCEPT !.pc = "streaming",
                            !.context = FormatContext(r.results)])
     /\ UNCHANGED <<turns, redisUp, flips, caches, db, appended, lastUpdate, torn, emb, embHist, units>>

\* a variant of StreamFragment that puts a fragment in front of full_response
StreamFragmentInFront(p) ==
  LET r == proc[p]
  IN /\ r.pc = "streaming"
     /\ Len(r.yielded) < MaxFragments
     /\ LET f == FragmentAt(Len(r.yielded) + 1)
        IN Set(p, [r EXCEPT !.text = f \o r.text,
                            !.yielded = Append(r.yielded, f)])
     /\ UNCHANGED <<turns, redisUp, flips, caches, db, appended, lastUpdate, torn, emb, embHist, units>>

\* one fragment arrives, is added to full_response and yielded (228-234)
StreamFragment(p) ==
  LET r == proc[p]
  IN /\ r.pc = "streaming"
     /\ Len(r.yielded) < MaxFragments
     /\ LET f == FragmentAt(Len(r.yielded) + 1)
        IN Set(p, [r EXCEPT !.text = r.text \o f,
                            !.yielded = Append(r.yielded, f)])
     /\ UNCHANGED <<turns, redisUp, flips, caches, db, appended, lastUpdate, torn, emb, embHist, units>>

\* the stream is exhausted: the loop ends and the session update starts (236)
StreamEnd(p) ==
  LET r == proc[p]
  IN /\ r.pc = "streaming"
     /\ Set(p, [r EXCEPT !.pc = "sess_cache", !.caller = "update",
                         !.consumed = TRUE])
     /\ UNCHANGED <<turns, redisUp, flips, caches, db, appended, lastUpdate, torn, emb, embHist, units>>

\* the completion stream breaks: the exception leaves the generator
StreamFail(p) ==
  LET r == proc[p]
  IN /\ r.pc = "streaming"
     /\ Fail(p, r, "completion")
     /\ UNCHANGED <<turns, redisUp, flips, caches, db, appended, lastUpdate, torn, emb, embHist, units>>

\* the consumer goes away: the generator is closed at the await or yield it
\* is suspended at
Cancel(p) ==
  LET r == proc[p]
  IN /\ r.kind = "stream"
     /\ r.pc \notin Terminal
     /\ Set(p, Ended(r, "cancelled"))
     /\ torn' = IF r.pc = "upd_cache" THEN torn \cup {r.session} ELSE torn
     /\ UNCHANGED <<turns, redisUp, flips, caches, db, appended, lastUpdate, emb, embHist, units>>

\* ---------------------------------------------------------- specifications
\* the steps of a request once started
Step(p) ==
  \/ CheckCache(p)
  \/ GetSessionCache(p)
  \/ GetSessionDb(p)
  \/ GetSessionWriteBack(p)
  \/ CreateSession(p)
  \/ CreateSessionWriteBack(p)
  \/ EmbedQuery(p)
  \/ VectorSearch(p)
  \/ Generate(p)
  \/ Suggest(p)
  \/ UpdateSessionDb(p)
  \/ UpdateSessionCache(p)
  \/ LogAnalytics(p)
  \/ CacheResponse(p)

StreamStep(p) ==
  \/ GetSessionCache(p)
  \/ GetSessionDb(p)
  \/ GetSessionWriteBack(p)
  \/ CreateSession(p)
  \/ CreateSessionWriteBack(p)
  \/ EmbedQuery(p)
  \/ VectorSearch(p)
  \/ StreamOpen(p)
  \/ StreamFragment(p)
  \/ StreamEnd(p)
  \/ StreamFail(p)
  \/ Cancel(p)
  \/ UpdateSessionDb(p)
  \/ UpdateSessionCache(p)

\* concurrent process_query requests
Next == \E p \in Procs : StartQuery(p, MaxTurns) \/ Step(p)

Spec == Init /\ [][Next]_vars

\* requests of both kinds, one after the other
NextSeq ==
  \/ StartQuery(1, MaxSeqTurns)
  \/ StartStream(1, MaxSeqTurns)
  \/ Step(1)
  \/ StreamStep(1)

SpecSeq == Init /\ [][NextSeq]_vars

\* ------------------------------------------------------------ chat endpoints
\* requests made of the endpoints, one after the other
MaxApiTurns == 2

\* a zero-width character; "!" stands for a phrase of INJECTION_PATTERNS
ZeroWidth == "zw"
InjectionPatterns == {<<"!">>}
\* request.message: a question, the question no document matches, a blank
\* text, a text of zero-width characters around a blank, an injection phrase
ApiMessages == {<<"a">>, <<"z">>, <<" ">>, <<"zw", " ", "zw">>, <<"!">>}
\* what an upstream service says of its failure
ErrTexts == {"upstream-1", "upstream-2"}

\* re.sub(r'[​-‏ - ﻿]', '', text)
RECURSIVE RemoveZeroWidth(_)
RemoveZeroWidth(s) ==
  IF s = <<>> THEN <<>>
  ELSE IF Head(s) = ZeroWidth THEN RemoveZeroWidth(Tail(s))
  ELSE <<Head(s)>> \o RemoveZeroWidth(Tail(s))

\* sanitize_input up to its pattern search (security.py 355-363)
Cleaned(text) == IF text = <<>> THEN <<>> ELSE RemoveZeroWidth(Strip(text))

\* the pattern search (366-374): the text is refused with HTTPException(400)
Refused(text) == \E pat \in InjectionPatterns : Contains(Lower(Cleaned(text)), pat)

\* the request has been received and not answered yet
Answered(r) == r.endpoint = "none" \/ r.client # NoReply \/ r.pc = "cancelled"

\* POST /chat/query (chat.py 57-63): sanitize_input, then process_query
ApiQuery(p, max) ==
  /\ proc[p].pc \in Terminal
  /\ Answered(proc[p])
  /\ turns < max
  /\ \E m \in ApiMessages, s \in Sessions :
       LET r == [IdleProc EXCEPT !.kind = "query", !.endpoint = "query",
                                 !.message = m, !.session = s,
                                 !.turn = turns + 1]
       IN IF Refused(m)
          THEN Set(p, [r EXCEPT !.pc = "failed", !.failure = "sanitize"])
          ELSE Set(p, [r EXCEPT !.pc = "cache_check", !.query = Cleaned(m)])
  /\ turns' = turns + 1
  /\ UNCHANGED <<redisUp, flips, caches, db, appended, lastUpdate, torn, emb, embHist, units>>

\* POST /chat/query/stream (chat.py 99-110): sanitize_input, then the event
\* generator over process_streaming_query
ApiQueryStream(p, max) ==
  /\ proc[p].pc \in Terminal
  /\ Answered(proc[p])
  /\ turns < max
  /\ \E m \in ApiMessages, s \in Sessions :
       LET r == [IdleProc EXCEPT !.kind = "stream", !.endpoint = "stream",
                                 !.message = m, !.session = s,
                                 !.turn = turns + 1]
       IN IF Refused(m)
          THEN Set(p, [r EXCEPT !.pc = "failed", !.failure = "sanitize"])
          ELSE Set(p, [r EXCEPT !.pc = "sess_cache", !.caller = "stream",
                                !.query = Cleaned(m)])
  /\ turns' = turns + 1
  /\ UNCHANGED <<redisUp, flips, caches, db, appended, lastUpdate, torn, emb, embHist, units>>

\* str(e) of the exception a request failed of, e the text the upstream service
\* gave: the embedder's ValueError and tenacity's RetryError (embedder.py 52,
\* 147-150) carry texts of their own, the other clients the upstream text
ExceptionText(cause, e) ==
  CASE cause = "input" -> "Cannot embed empty text"
    [] cause = "embedding" -> "RetryError"
    [] cause = "serialization" -> "not JSON serializable"
    [] OTHER -> e

\* the except clauses of query (chat.py 65-75)
QueryReply(r, e) ==
  IF r.pc = "done" THEN [status |-> 200, body |-> "response"]
  ELSE IF r.failure = "input"
  THEN [status |-> 400, body |-> ExceptionText(r.failure, e)]
  ELSE [status |-> 500, body |-> "An error occurred processing your query."]

\* query_stream (chat.py 99-116): the HTTPException of sanitize_input passes
\* the except clause; the last event of the stream is done or error
StreamReply(r, e) ==
  IF r.failure = "sanitize" THEN [status |-> 400, body |-> "Invalid input"]
  ELSE IF r.pc = "done" THEN [status |-> 200, body |-> "done"]
  ELSE [status |-> 200, body |-> ExceptionText(r.failure, e)]

\* what the client of the request receives
Reply(r, e) == IF r.endpoint = "query" THEN QueryReply(r, e) ELSE StreamReply(r, e)

\* the endpoint answers
ApiRespond(p) ==
  LET r == proc[p]
  IN /\ r.endpoint # "none"
     /\ r.pc \in {"done", "failed"}
     /\ r.client = NoReply
     /\ \E e \in ErrTexts :
          Set(p, [r EXCEPT !.client = Reply(r, e),
                           !.errtext = IF r.pc = "failed" THEN e ELSE "none"])
     /\ UNCHANGED <<turns, redisUp, flips, caches, db, appended, lastUpdate, torn, emb, embHist, units>>

NextApi ==
  \/ ApiQuery(1, MaxApiTurns)
  \/ ApiQueryStream(1, MaxApiTurns)
  \/ Step(1)
  \/ StreamStep(1)
  \/ ApiRespond(1)

SpecApi == Init /\ [][NextApi]_vars

\* ------------------------------------------------ network store outages
\* process_query requests, one after the other, of a session that is new
MaxOutageTurns == 4
\* changes of the network store between reachable and unreachable
MaxFlips == 2

InitOutage == Init /\ db = [s \in Sessions |-> NoRow]

\* between two requests the network store goes down, or comes back with what
\* it held
RedisFlip ==
  /\ flips < MaxFlips
  /\ \A p \in Procs : proc[p].pc \in Terminal
  /\ flips' = flips + 1
  /\ redisUp' = ~redisUp
  /\ UNCHANGED <<proc, turns, caches, db, appended, lastUpdate, torn, emb,
                 embHist, units>>

NextOutage ==
  \/ StartQuery(1, MaxOutageTurns)
  \/ Step(1)
  \/ RedisFlip

SpecOutage == InitOutage /\ [][NextOutage]_vars

\* ------------------------------------------------ embedding service client
\* the texts a caller may pass: two texts, a whitespace-only text, the empty one
EmbTexts == {<<"a">>, <<"b">>, <<" ">>, <<>>}

EmbTextLists == UNION {[1..n -> EmbTexts] : n \in 0..MaxTexts}

EmbTerminal == {"idle", "returned", "raised"}

\* an embedding not produced yet: embeddings = [None] * len(texts)
NoVector == [kind |-> "none", dim |-> 0, text |-> <<>>]

\* the non-blank texts of a request
NonBlank(texts) == {texts[i] : i \in {j \in 1..Len(texts) : ~IsBlank(texts[j])}}

\* a request is made: it remembers which texts the client has served before
EmbRequest(op, texts, uc) ==
  [IdleEmb EXCEPT !.op = op, !.texts = texts, !.use_cache = uc,
                  !.before = embHist.served]

EmbReturn(r, result) ==
  /\ emb' = [r EXCEPT !.pc = "returned", !.out = result]
  /\ embHist' = [requests |-> embHist.requests + 1,
                 served |-> IF r.use_cache
                            THEN embHist.served \cup NonBlank(r.texts)
                            ELSE embHist.served]

EmbRaise(r, error) ==
  /\ emb' = [r EXCEPT !.pc = "raised", !.error = error]
  /\ embHist' = [embHist EXCEPT !.requests = @ + 1]

\* a variant of RetryAgain that allows one attempt more
RetryAgainOnceMore(attempts) == attempts < MaxAttempts + 1

\* stop_after_attempt(3): whether a failed attempt is followed by another
RetryAgain(attempts) == attempts < MaxAttempts

\* embed_text (36-67), up to its first await
EmbedTextStart(text, uc) ==
  LET r == EmbRequest("embed_text", <<text>>, uc)
  IN /\ emb.pc \in EmbTerminal
     /\ embHist.requests < MaxEmbRequests
     /\ IF IsBlank(text)
        THEN EmbRaise(r, "ValueError")
        ELSE /\ emb' = [r EXCEPT !.pc = IF uc THEN "get" ELSE "call"]
             /\ UNCHANGED embHist
     /\ UNCHANGED <<proc, turns, redisUp, flips, caches, db, appended, lastUpdate, torn, units>>

\* a variant of EmbedTextGet that never finds the text cached
EmbedTextGetMiss ==
  /\ emb.pc = "get"
  /\ emb' = [emb EXCEPT !.pc = "call"]
  /\ UNCHANGED <<proc, turns, redisUp, flips, caches, db, appended, lastUpdate, torn,
                 embHist, units>>

\* cache_service.get_embedding and "if cached: return cached" (56-58)
EmbedTextGet ==
  LET t == emb.texts[1]
  IN /\ emb.pc = "get"
     /\ IF CacheHas(redisEmb, localEmb, t)
        THEN EmbReturn(emb, <<CacheGet(redisEmb, localEmb, t)>>)
        ELSE /\ emb' = [emb EXCEPT !.pc = "call"]
             /\ UNCHANGED embHist
     /\ UNCHANGED <<proc, turns, redisUp, flips, caches, db, appended, lastUpdate, torn, units>>

\* one attempt of _generate_embedding (148-158) under its retry policy
EmbedTextAttempt ==
  LET t == emb.texts[1]
      r == [emb EXCEPT !.attempts = @ + 1,
                       !.calls = IF emb.attempts = 0 THEN @ + 1 ELSE @,
                       !.called = @ \cup {t}]
  IN /\ emb.pc = "call"
     /\ \/ IF emb.use_cache
           THEN /\ emb' = [r EXCEPT !.pc = "set", !.out = <<ModelVector(t)>>]
                /\ UNCHANGED embHist
           ELSE EmbReturn(r, <<ModelVector(t)>>)
        \/ IF RetryAgain(r.attempts)
           THEN /\ emb' = r
                /\ UNCHANGED embHist
           ELSE EmbRaise(r, "RetryError")
     /\ UNCHANGED <<proc, turns, redisUp, flips, caches, db, appended, lastUpdate, torn, units>>

\* cache_service.set_embedding and the return (64-67)
EmbedTextSet ==
  LET t == emb.texts[1]
      r == [emb EXCEPT !.sets = @ \cup {t}]
  IN /\ emb.pc = "set"
     /\ redisEmb' = CacheSetRedis(redisEmb, t, emb.out[1])
     /\ localEmb' = CacheSetLocal(localEmb, t, emb.out[1])
     /\ EmbReturn(r, emb.out)
     /\ UNCHANGED <<proc, turns, redisUp, flips, redisSess, localSess, redisQuery,
                    localQuery, db, appended, lastUpdate, torn, units>>

\* the final loop of embed_texts (142-146): what is still None becomes zeros
FillZeros(out) ==
  [i \in 1..Len(out) |-> IF out[i] = NoVector THEN ZeroVector ELSE out[i]]

\* texts_to_embed when the cache is not used (106-108)
NonBlankIndices(texts) ==
  SelectSeq([i \in 1..Len(texts) |-> i], LAMBDA i : ~IsBlank(texts[i]))

\* batches[0] of what is left of texts_to_embed, and the rest (112-115)
FirstBatch(todo) ==
  SubSeq(todo, 1, IF Len(todo) < MaxBatchSize THEN Len(todo) ELSE MaxBatchSize)
AfterBatch(todo) == SubSeq(todo, Len(FirstBatch(todo)) + 1, Len(todo))

\* the members of a batch
BatchIndices(todo) == {FirstBatch(todo)[k] : k \in 1..Len(FirstBatch(todo))}

\* the batch is done: the next batch, or the end of embed_texts
EmbNextBatch(r) ==
  LET rest == AfterBatch(r.todo)
  IN IF rest = <<>>
     THEN EmbReturn([r EXCEPT !.todo = rest], FillZeros(r.out))
     ELSE /\ emb' = [r EXCEPT !.todo = rest, !.pc = "batch", !.attempts = 0]
          /\ UNCHANGED embHist

\* embed_texts (69-146), up to its first await
EmbedTextsStart(texts, uc) ==
  LET r == [EmbRequest("embed_texts", texts, uc) EXCEPT
              !.out = [i \in 1..Len(texts) |-> NoVector]]
      todo == NonBlankIndices(texts)
  IN /\ emb.pc \in EmbTerminal
     /\ embHist.requests < MaxEmbRequests
     /\ IF texts = <<>>
        THEN EmbReturn(r, <<>>)
        ELSE IF uc
        THEN /\ emb' = [r EXCEPT !.pc = "scan"]
             /\ UNCHANGED embHist
        ELSE IF todo = <<>>
        THEN EmbReturn(r, FillZeros(r.out))
        ELSE /\ emb' = [r EXCEPT !.pc = "batch", !.todo = todo]
             /\ UNCHANGED embHist
     /\ UNCHANGED <<proc, turns, redisUp, flips, caches, db, appended, lastUpdate, torn, units>>

\* one round of the loop that checks the cache for each text (95-104)
EmbedTextsScan ==
  LET i == emb.i
      t == emb.texts[i]
      r == IF IsBlank(t)
           THEN [emb EXCEPT !.out[i] = ZeroVector, !.i = i + 1]
           ELSE IF CacheHas(redisEmb, localEmb, t)
           THEN [emb EXCEPT !.out[i] = CacheGet(redisEmb, localEmb, t),
                            !.i = i + 1]
           ELSE [emb EXCEPT !.todo = Append(@, i), !.i = i + 1]
  IN /\ emb.pc = "scan"
     /\ IF i < Len(emb.texts)
        THEN /\ emb' = r
             /\ UNCHANGED embHist
        ELSE IF r.todo = <<>>
        THEN EmbReturn(r, FillZeros(r.out))
        ELSE /\ emb' = [r EXCEPT !.pc = "batch"]
             /\ UNCHANGED embHist
     /\ UNCHANGED <<proc, turns, redisUp, flips, caches, db, appended, lastUpdate, torn, units>>

\* one attempt of _generate_embeddings_batch (160-175) under its retry policy
EmbedTextsAttempt ==
  LET batch == BatchIndices(emb.todo)
      r == [emb EXCEPT !.attempts = @ + 1,
                       !.calls = IF emb.attempts = 0 THEN @ + 1 ELSE @,
                       !.called = @ \cup {emb.texts[i] : i \in batch}]
      got == [r EXCEPT !.out = [i \in 1..Len(emb.out) |->
                                  IF i \in batch THEN ModelVector(emb.texts[i])
                                  ELSE emb.out[i]]]
  IN /\ emb.pc = "batch"
     /\ \/ IF emb.use_cache
           THEN /\ emb' = [got EXCEPT !.pc = "store"]
                /\ UNCHANGED embHist
           ELSE EmbNextBatch(got)
        \/ IF RetryAgain(r.attempts)
           THEN /\ emb' = r
                /\ UNCHANGED embHist
           ELSE EmbRaise(r, "RetryError")
     /\ UNCHANGED <<proc, turns, redisUp, flips, caches, db, appended, lastUpdate, torn, units>>

\* cache_service.set_embedding for each text of the batch (130-135)
RECURSIVE SetAll(_, _, _, _)
SetAll(store, up, texts, idx) ==
  IF idx = <<>> THEN store
  ELSE SetAll(IF up THEN Put(store, texts[Head(idx)], ModelVector(texts[Head(idx)]))
              ELSE store,
              up, texts, Tail(idx))

EmbedTextsStore ==
  LET batch == FirstBatch(emb.todo)
      r == [emb EXCEPT !.sets = @ \cup {emb.texts[i] : i \in BatchIndices(emb.todo)}]
  IN /\ emb.pc = "store"
     /\ redisEmb' = SetAll(redisEmb, redisUp, emb.texts, batch)
     /\ localEmb' = SetAll(localEmb, ~redisUp, emb.texts, batch)
     /\ EmbNextBatch(r)
     /\ UNCHANGED <<proc, turns, redisUp, flips, redisSess, localSess, redisQuery,
                    localQuery, db, appended, lastUpdate, torn, units>>

\* requests to the embedding service client, one after the other
NextEmbed ==
  \/ \E t \in EmbTexts, uc \in BOOLEAN : EmbedTextStart(t, uc)
  \/ EmbedTextGet
  \/ EmbedTextAttempt
  \/ EmbedTextSet
  \/ \E ts \in EmbTextLists, uc \in BOOLEAN : EmbedTextsStart(ts, uc)
  \/ EmbedTextsScan
  \/ EmbedTextsAttempt
  \/ EmbedTextsStore

SpecEmbed == Init /\ [][NextEmbed]_vars

\* the components called on their own use neither cache nor durable store
InitUnits == Init /\ redisUp /\ db = [s \in Sessions |-> NoRow]

\* --------------------------------------------------------- hybrid retriever
\* Scores, weights and thresholds are in hundredths (0.75 is 75), combined
\* scores in ten-thousandths (0.69 is 6900); floating-point rounding is left
\* out.  The retriever runs in hybrid mode (settings.hybrid_search_enabled).
\* settings.vector_weight, settings.bm25_weight, settings.similarity_threshold
VectorWeight == 70
Bm25Weight == 30
SimilarityThreshold == 75
\* min(top_k * 3, 50)
CandidateFactor == 3
CandidateCap == 50

\* rows the vector index returns to one search
MaxCandidates == 3

\* what a caller may pass as top_k and as similarity_threshold (0 stands for
\* the default None too: both are falsy)
TopKs == {1, 2, 20}
Thresholds == {0, 50}
\* the similarities of the rows of the index, and the scores BM25Okapi gives:
\* with one or two candidate texts its idf terms, and so its scores, are
\* negative
SimScores == {60, 90}
Bm25Scores == {-1, 0, 1, 5}

\* max(list)
MaxOf(s) == CHOOSE m \in {s[i] : i \in DOMAIN s} : \A i \in DOMAIN s : s[i] <= m

RetrTerminal == {"idle", "returned", "raised"}

\* the rows match_documents may return: at most match_count of them, each
\* with a similarity above match_threshold
IndexRows(match_count, match_threshold) ==
  UNION {[1..n -> {x \in SimScores : x > match_threshold}] :
           n \in 0..Min(MaxCandidates, match_count)}

\* retrieve (30-72), up to embed_text: threshold = similarity_threshold or
\* settings.similarity_threshold
RetrieveStart(top_k, similarity_threshold) ==
  /\ retr.pc \in RetrTerminal
  /\ retr' = [pc |-> "embed", top_k |-> top_k,
              threshold |-> IF similarity_threshold = 0
                            THEN SimilarityThreshold ELSE similarity_threshold,
              match_count |-> 0, match_threshold |-> 0,
              vector_results |-> <<>>, bm25_scores |-> <<>>, out |-> <<>>]
  /\ UNCHANGED <<proc, turns, redisUp, flips, caches, db, appended, lastUpdate, torn,
                 emb, embHist, cite, chunker, aux>>

\* embedding_service.embed_text(query) (54), then _hybrid_search up to its
\* search of the index (110-119)
RetrieveEmbed ==
  /\ retr.pc = "embed"
  /\ \/ retr' = [retr EXCEPT !.pc = "raised"]
     \/ retr' = [retr EXCEPT
                   !.pc = "vector_search",
                   !.match_count = Min(retr.top_k * CandidateFactor, CandidateCap),
                   !.match_threshold = (retr.threshold * 8) \div 10]
  /\ UNCHANGED <<proc, turns, redisUp, flips, caches, db, appended, lastUpdate, torn,
                 emb, embHist, cite, chunker, aux>>

\* supabase_service.vector_search and "if not vector_results: return []"
\* (113-122)
HybridVectorSearch ==
  /\ retr.pc = "vector_search"
  /\ \/ retr' = [retr EXCEPT !.pc = "raised"]
     \/ \E rows \in IndexRows(retr.match_count, retr.match_threshold) :
          retr' = [retr EXCEPT
                     !.pc = IF rows = <<>> THEN "returned" ELSE "bm25",
                     !.vector_results =
                        [i \in DOMAIN rows |->
                           [id |-> i, similarity_score |-> rows[i]]]]
  /\ UNCHANGED <<proc, turns, redisUp, flips, caches, db, appended, lastUpdate, torn,
                 emb, embHist, cite, chunker, aux>>

\* normalized_bm25 (133-135): max_bm25 is the maximum when it is positive,
\* otherwise 1
NormalizedBm25(bm25_scores) ==
  LET max_bm25 == IF MaxOf(bm25_scores) > 0 THEN MaxOf(bm25_scores) ELSE 1
  IN [i \in DOMAIN bm25_scores |-> (100 * bm25_scores[i]) \div max_bm25]

\* combined_score (140-143)
CombinedScore(similarity_score, normalized) ==
  VectorWeight * similarity_score + Bm25Weight * normalized

\* list.sort(key=combined_score, reverse=True): equal scores keep their order
RECURSIVE InsertDesc(_, _)
InsertDesc(sorted, x) ==
  IF sorted = <<>> THEN <<x>>
  ELSE IF Head(sorted).combined_score >= x.combined_score
  THEN <<Head(sorted)>> \o InsertDesc(Tail(sorted), x)
  ELSE <<x>> \o sorted
RECURSIVE SortDesc(_)
SortDesc(s) ==
  IF s = <<>> THEN <<>>
  ELSE InsertDesc(SortDesc(SubSeq(s, 1, Len(s) - 1)), s[Len(s)])

\* the scores of BM25Okapi, the fusion, the sort and the cut (124-152)
HybridBm25 ==
  /\ retr.pc = "bm25"
  /\ \E bm25_scores \in [DOMAIN retr.vector_results -> Bm25Scores] :
       LET normalized == NormalizedBm25(bm25_scores)
           combined_results ==
             [i \in DOMAIN retr.vector_results |->
                [id |-> i,
                 similarity_score |-> retr.vector_results[i].similarity_score,
                 bm25_score |-> normalized[i],
                 combined_score |->
                   CombinedScore(retr.vector_results[i].similarity_score,
                                 normalized[i])]]
       IN retr' = [retr EXCEPT !.pc = "returned",
                               !.bm25_scores = bm25_scores,
                               !.out = Take(SortDesc(combined_results), retr.top_k)]
  /\ UNCHANGED <<proc, turns, redisUp, flips, caches, db, appended, lastUpdate, torn,
                 emb, embHist, cite, chunker, aux>>

\* calls of the retriever, one after the other
NextRetrieve ==
  \/ \E k \in TopKs, th \in Thresholds : RetrieveStart(k, th)
  \/ RetrieveEmbed
  \/ HybridVectorSearch
  \/ HybridBm25

SpecRetrieve == InitUnits /\ [][NextRetrieve]_vars

\* the names a further context result may bear: one in use, or the next
NextDocs(results) ==
  LET used == {k \in DOMAIN DocNames :
                 \E i \in DOMAIN results : results[i].document_name = <<DocNames[k]>>}
  IN used \cup {Cardinality(used) + 1}

\* generate (56-79): the caller's context results and the answer text of the
\* completion service
CiteStart(response) ==
  /\ cite.pc \in {"idle", "returned"}
  /\ cite' = [pc |-> "context", response |-> response, results |-> <<>>,
              out |-> <<>>]
  /\ UNCHANGED <<proc, turns, redisUp, flips, caches, db, appended, lastUpdate, torn,
                 emb, embHist, retr, chunker, aux>>

CiteContext ==
  /\ cite.pc = "context"
  /\ Len(cite.results) < MaxContext
  /\ \E k \in NextDocs(cite.results), kind \in ResultKinds :
       cite' = [cite EXCEPT !.results =
                  Append(@, [document_name |-> <<DocNames[k]>>,
                             borough |-> Borough,
                             section_title |-> kind.section_title,
                             similarity_score |-> kind.similarity_score,
                             content |-> kind.content,
                             chunk_id |-> Len(cite.results) + 1])]
  /\ UNCHANGED <<proc, turns, redisUp, flips, caches, db, appended, lastUpdate, torn,
                 emb, embHist, retr, chunker, aux>>

\* citations = self._extract_citations(context_results, response_text) (82)
CiteExtract ==
  /\ cite.pc = "context"
  /\ cite' = [cite EXCEPT !.pc = "returned",
                          !.out = ExtractCitations(cite.results, cite.response)]
  /\ UNCHANGED <<proc, turns, redisUp, flips, caches, db, appended, lastUpdate, torn,
                 emb, embHist, retr, chunker, aux>>

NextCite ==
  \/ \E response \in AnswerTexts : CiteStart(response)
  \/ CiteContext
  \/ CiteExtract

SpecCite == InitUnits /\ [][NextCite]_vars

\* ------------------------------------------------------- semantic chunker
\* SemanticChunker(chunk_size=512, chunk_overlap=50)
ChunkSize == 512
ChunkOverlap == 50

\* paragraphs of a text, and sentences of a paragraph
MaxParagraphs == 2
MaxSentences == 2

\* a sentence is known by its number of tokens and of characters: a short
\* one, one that nearly fills a chunk, one that is longer than a chunk
CharsPerToken == 4
Sentence(n) == [tokens |-> n, chars |-> CharsPerToken * n]
SentenceKinds == {Sentence(40), Sentence(500), Sentence(600)}

SeqsUpTo(S, n) == UNION {[1..k -> S] : k \in 1..n}
Paragraphs == SeqsUpTo(SentenceKinds, MaxSentences)
\* text.strip() split at blank lines (79-80); the empty text has no paragraph
Texts == {<<>>} \cup SeqsUpTo(Paragraphs, MaxParagraphs)

RECURSIVE SumOf(_, _)
SumOf(parts, field) ==
  IF parts = <<>> THEN 0 ELSE Head(parts)[field] + SumOf(Tail(parts), field)

\* _count_tokens of the units joined by a separator of sep tokens, and the
\* length of that text with a separator of sep characters
JoinedTokens(parts, sep) ==
  IF parts = <<>> THEN 0 ELSE SumOf(parts, "tokens") + sep * (Len(parts) - 1)
JoinedChars(parts, sep) ==
  IF parts = <<>> THEN 0 ELSE SumOf(parts, "chars") + sep * (Len(parts) - 1)

\* the sentences of a paragraph are a blank apart, which the tokenizer joins
\* to the word after it; paragraphs are joined by "\n\n", one token
Paragraph(sentences) ==
  [tokens |-> JoinedTokens(sentences, 0), chars |-> JoinedChars(sentences, 1)]

\* _get_overlap (316-333) and _get_sentence_overlap (335-351): the last units
\* whose tokens sum to chunk_overlap at most
RECURSIVE GetOverlap(_, _)
GetOverlap(parts, overlap_tokens) ==
  IF parts = <<>> THEN <<>>
  ELSE LET last == parts[Len(parts)]
       IN IF overlap_tokens + last.tokens <= ChunkOverlap
          THEN Append(GetOverlap(SubSeq(parts, 1, Len(parts) - 1),
                                 overlap_tokens + last.tokens), last)
          ELSE <<>>

\* TextChunk(...) of the joined units (94-104, 123-133, 151-161, 220-230,
\* 247-257, 271-281); overlap is the number of its leading characters that
\* were carried over from the chunk before it
TextChunk(parts, sep, chunk_index, token_count, current_start, carried, level) ==
  [chunk_index |-> chunk_index, token_count |-> token_count,
   length |-> JoinedChars(parts, sep),
   start_char |-> current_start,
   end_char |-> current_start + JoinedChars(parts, sep),
   overlap |-> JoinedChars(carried, sep), level |-> level]

\* _force_split (287-314): pieces of chunk_size tokens, each beginning
\* chunk_size - chunk_overlap tokens after the one before; start_char and
\* end_char are left at their default 0
RECURSIVE ForceSplit(_, _, _)
ForceSplit(tokens, i, chunk_index) ==
  IF i >= tokens THEN <<>>
  ELSE <<[chunk_index |-> chunk_index,
          token_count |-> Min(ChunkSize, tokens - i),
          length |-> CharsPerToken * Min(ChunkSize, tokens - i),
          start_char |-> 0, end_char |-> 0,
          overlap |-> IF i = 0 THEN 0 ELSE CharsPerToken * ChunkOverlap,
          level |-> "forced"]>>
       \o ForceSplit(tokens, i + (ChunkSize - ChunkOverlap), chunk_index + 1)

\* the end of the chunk made last, 0 when there is none
LastEnd(chunks) == IF chunks = <<>> THEN 0 ELSE chunks[Len(chunks)].end_char

\* the locals of _chunk_large_paragraph at its entry (207-211)
LargeEntry(start_index) ==
  [chunks |-> <<>>, current_content |-> <<>>, carried |-> <<>>,
   current_tokens |-> 0, chunk_index |-> start_index, current_start |-> 0]

\* one pass of the loop over the sentences (213-268)
LargeSentence(st, sentence) ==
  LET closed == Append(st.chunks,
                       TextChunk(st.current_content, 1, st.chunk_index,
                                 st.current_tokens, st.current_start,
                                 st.carried, "sentence"))
  IN IF sentence.tokens > ChunkSize
     THEN LET before == IF st.current_content # <<>> THEN closed ELSE st.chunks
              index == IF st.current_content # <<>> THEN st.chunk_index + 1
                       ELSE st.chunk_index
              forced == ForceSplit(sentence.tokens, 0, index)
          IN [chunks |-> before \o forced, current_content |-> <<>>,
              carried |-> <<>>, current_tokens |-> 0,
              chunk_index |-> index + Len(forced),
              current_start |-> LastEnd(before \o forced)]
     ELSE IF st.current_tokens + sentence.tokens > ChunkSize
     THEN LET overlap == GetOverlap(st.current_content, 0)
          IN [chunks |-> closed,
              current_content |-> Append(overlap, sentence),
              carried |-> overlap,
              current_tokens |-> JoinedTokens(Append(overlap, sentence), 0),
              chunk_index |-> st.chunk_index + 1,
              current_start |-> LastEnd(closed)]
     ELSE [st EXCEPT !.current_content = Append(st.current_content, sentence),
                     !.current_tokens = st.current_tokens + sentence.tokens]

RECURSIVE LargeLoop(_, _)
LargeLoop(st, sentences) ==
  IF sentences = <<>> THEN st
  ELSE LargeLoop(LargeSentence(st, Head(sentences)), Tail(sentences))

\* _chunk_large_paragraph (196-285)
ChunkLargeParagraph(sentences, start_index) ==
  LET st == LargeLoop(LargeEntry(start_index), sentences)
  IN IF st.current_content # <<>>
     THEN Append(st.chunks,
                 TextChunk(st.current_content, 1, st.chunk_index,
                           st.current_tokens, st.current_start, st.carried,
                           "sentence"))
     ELSE st.chunks

\* chunk_text entry (59-88); the chunker keeps nothing from one call to the
\* next, so one call is followed
ChunkStart ==
  /\ chunker.pc = "idle"
  /\ \E text \in Texts :
       chunker' = IF text = <<>>
                  THEN [pc |-> "returned", text |-> text, chunks |-> <<>>]
                  ELSE [pc |-> "paragraphs", text |-> text, rest |-> text,
                        chunks |-> <<>>, current_content |-> <<>>,
                        carried |-> <<>>, current_tokens |-> 0,
                        current_start |-> 0, chunk_index |-> 0]
  /\ UNCHANGED <<proc, turns, redisUp, flips, caches, db, appended, lastUpdate, torn,
                 emb, embHist, retr, cite, aux>>

\* one pass of the loop over the paragraphs (90-146)
ChunkParagraph ==
  LET c == chunker
      sentences == Head(c.rest)
      para == Paragraph(sentences)
      closed == Append(c.chunks,
                       TextChunk(c.current_content, 2, c.chunk_index,
                                 c.current_tokens, c.current_start, c.carried,
                                 "paragraph"))
  IN /\ c.pc = "paragraphs"
     /\ c.rest # <<>>
     /\ chunker' =
          IF para.tokens > ChunkSize
          THEN LET before == IF c.current_content # <<>> THEN closed ELSE c.chunks
                   index == IF c.current_content # <<>> THEN c.chunk_index + 1
                            ELSE c.chunk_index
                   sentence_chunks == ChunkLargeParagraph(sentences, index)
               IN [c EXCEPT !.rest = Tail(c.rest),
                            !.chunks = before \o sentence_chunks,
                            !.current_content = <<>>, !.carried = <<>>,
                            !.current_tokens = 0,
                            !.chunk_index = index + Len(sentence_chunks),
                            !.current_start = LastEnd(before \o sentence_chunks)]
          ELSE IF c.current_tokens + para.tokens > ChunkSize
          THEN LET overlap == GetOverlap(c.current_content, 0)
               IN [c EXCEPT !.rest = Tail(c.rest),
                            !.chunks = closed,
                            !.chunk_index = c.chunk_index + 1,
                            !.current_start = LastEnd(closed),
                            !.current_content = Append(overlap, para),
                            !.carried = overlap,
                            !.current_tokens =
                               JoinedTokens(Append(overlap, para), 1)]
          ELSE [c EXCEPT !.rest = Tail(c.rest),
                         !.current_content = Append(c.current_content, para),
                         !.current_tokens = c.current_tokens + para.tokens]
     /\ UNCHANGED <<proc, turns, redisUp, flips, caches, db, appended, lastUpdate, torn,
                    emb, embHist, retr, cite, aux>>

\* the last chunk and the return (148-163)
ChunkReturn ==
  LET c == chunker
  IN /\ c.pc = "paragraphs"
     /\ c.rest = <<>>
     /\ chunker' =
          [pc |-> "returned", text |-> c.text,
           chunks |-> IF c.current_content # <<>>
                      THEN Append(c.chunks,
                                  TextChunk(c.current_content, 2, c.chunk_index,
                                            c.current_tokens, c.current_start,
                                            c.carried, "paragraph"))
                      ELSE c.chunks]
     /\ UNCHANGED <<proc, turns, redisUp, flips, caches, db, appended, lastUpdate, torn,
                    emb, embHist, retr, cite, aux>>

NextChunk ==
  \/ ChunkStart
  \/ ChunkParagraph
  \/ ChunkReturn

SpecChunk == InitUnits /\ [][NextChunk]_vars

\* ----------------------------------------------------------- the reranker
\* Scores and boosts are in hundredths (0.05 is 5).
\* settings.rerank_enabled, settings.rerank_top_k
RerankEnabled == TRUE
RerankTopK == 20
\* the boosts of _heuristic_rerank: per query term in the content, for the
\* whole query in the content, for a query term in the section title, for a
\* page before page 20
TermBoost == 5
PhraseBoost == 10
SectionBoost == 10
PageBoost == 2
EarlyPages == 20

\* results passed to one call
MaxResults == 2

\* what a caller may pass: a query of one term, a blank query; top_k None
\* (0), 1 or 2
RerankQueries == {<<"A">>, <<" ">>}
RerankTopKs == {0, 1, 2}
\* a result has the similarity 0.70 and no combined score, or the combined
\* score 0.71; a content without the term, with blanks, or with the term; no
\* section title or one with the term; no page number, page 3 or page 50.
\* What is absent is 0 or the empty text here: the code tests these fields
\* for truth, and None, 0 and "" are all false
RerankKinds ==
  [combined_score : {0, 71}, similarity_score : {70},
   content : {<<"x">>, <<"x", " ", "x">>, <<"a">>},
   section_title : {<<>>, <<"A">>}, page_number : {0, 3, 50}]

\* set(str.split()): the words between blanks
RECURSIVE Split(_, _)
Split(s, word) ==
  LET done == IF word = <<>> THEN {} ELSE {word}
  IN IF s = <<>> THEN done
     ELSE IF Head(s) = " " THEN done \cup Split(Tail(s), <<>>)
     ELSE Split(Tail(s), Append(word, Head(s)))

\* result.combined_score or result.similarity_score (74)
BaseScore(result) ==
  IF result.combined_score # 0
  THEN result.combined_score ELSE result.similarity_score

\* the boost for a page before page 20 (93-94)
PageBoostOf(result) ==
  IF result.page_number # 0 /\ result.page_number < EarlyPages
  THEN PageBoost ELSE 0

\* the score of one pass of the loop (72-96)
HeuristicScore(query, result) ==
  LET query_terms == Split(Lower(query), <<>>)
      content_lower == Lower(result.content)
      term_matches ==
        Cardinality({term \in query_terms : Contains(content_lower, term)})
  IN BaseScore(result)
     + term_matches * TermBoost
     + (IF Contains(content_lower, Lower(query)) THEN PhraseBoost ELSE 0)
     + (IF result.section_title # <<>>
           /\ \E term \in query_terms :
                Contains(Lower(result.section_title), term)
        THEN SectionBoost ELSE 0)
     + PageBoostOf(result)

\* a variant of InsertScored that puts a result in front of those of its score
RECURSIVE InsertScoredInFront(_, _)
InsertScoredInFront(sorted, x) ==
  IF sorted = <<>> THEN <<x>>
  ELSE IF Head(sorted).score > x.score
  THEN <<Head(sorted)>> \o InsertScoredInFront(Tail(sorted), x)
  ELSE <<x>> \o sorted

\* scored_results.sort(key=score, reverse=True) (99): equal scores keep
\* their order
RECURSIVE InsertScored(_, _)
InsertScored(sorted, x) ==
  IF sorted = <<>> THEN <<x>>
  ELSE IF Head(sorted).score >= x.score
  THEN <<Head(sorted)>> \o InsertScored(Tail(sorted), x)
  ELSE <<x>> \o sorted
RECURSIVE SortScored(_)
SortScored(s) ==
  IF s = <<>> THEN <<>>
  ELSE InsertScored(SortScored(SubSeq(s, 1, Len(s) - 1)), s[Len(s)])

\* _heuristic_rerank (55-101)
HeuristicRerank(query, results) ==
  LET scored_results ==
        [i \in DOMAIN results |->
           [score |-> HeuristicScore(query, results[i]), result |-> results[i]]]
      sorted == SortScored(scored_results)
  IN [i \in DOMAIN sorted |-> sorted[i].result]

\* rerank (28-53); top_k 0 stands for None
RerankCall(query, results, top_k) ==
  IF ~RerankEnabled \/ results = <<>>
  THEN (IF top_k # 0 THEN Take(results, top_k) ELSE results)
  ELSE Take(HeuristicRerank(query, results),
            IF top_k # 0 THEN top_k ELSE RerankTopK)

\* the caller's query and top_k
RerankStart ==
  /\ reranker.pc \in {"idle", "returned"}
  /\ \E query \in RerankQueries, top_k \in RerankTopKs :
       reranker' = [pc |-> "results", query |-> query, top_k |-> top_k,
                    results |-> <<>>, out |-> <<>>]
  /\ UNCHANGED <<proc, turns, redisUp, flips, caches, db, appended, lastUpdate, torn,
                 emb, embHist, retr, cite, chunker, generator, cache_manager,
                 cache_service>>

\* the caller's results, one more; chunk_id is the place in the list
RerankResult ==
  /\ reranker.pc = "results"
  /\ Len(reranker.results) < MaxResults
  /\ \E kind \in RerankKinds :
       reranker' = [reranker EXCEPT !.results =
                      Append(@, [chunk_id |-> Len(reranker.results) + 1,
                                 combined_score |-> kind.combined_score,
                                 similarity_score |-> kind.similarity_score,
                                 content |-> kind.content,
                                 section_title |-> kind.section_title,
                                 page_number |-> kind.page_number])]
  /\ UNCHANGED <<proc, turns, redisUp, flips, caches, db, appended, lastUpdate, torn,
                 emb, embHist, retr, cite, chunker, generator, cache_manager,
                 cache_service>>

\* reranker.rerank(query, results, top_k) returns
RerankReturn ==
  /\ reranker.pc = "results"
  /\ reranker' = [reranker EXCEPT
                    !.pc = "returned",
                    !.out = RerankCall(reranker.query, reranker.results,
                                       reranker.top_k)]
  /\ UNCHANGED <<proc, turns, redisUp, flips, caches, db, appended, lastUpdate, torn,
                 emb, embHist, retr, cite, chunker, generator, cache_manager,
                 cache_service>>

NextRerank ==
  \/ RerankStart
  \/ RerankResult
  \/ RerankReturn

SpecRerank == InitUnits /\ [][NextRerank]_vars

\* ------------------------------------------------- follow-up suggestions
\* The content of a completion is a sequence of JSON tokens: brackets,
\* braces, "," and ":", the literals null and 7, and "q", a string literal
\* of QuestionChars characters; any other token is not JSON.
\* [...][:3], and the default suggestions of a first query (engine 356-360)
MaxSuggestions == 3
DefaultSuggestions == <<"default-1", "default-2", "default-3">>
QuestionChars == 5

\* items in a list the completion service returns
MaxItems == 4

Scalars == {"q", "7", "null"}

\* "[" item "," item ... "]"
RECURSIVE Listed(_)
Listed(items) ==
  IF items = <<>> THEN <<>>
  ELSE IF Len(items) = 1 THEN <<Head(items)>>
  ELSE <<Head(items), ",">> \o Listed(Tail(items))
JsonList(items) == <<"[">> \o Listed(items) \o <<"]">>

\* response.choices[0].message.content: None, a text that is not JSON, a
\* scalar, an object with the key "q", a list of scalars
NoContent == <<"None">>
Contents ==
  {NoContent, <<"oops">>, <<"[", "q">>, <<"{", "q", ":", "[", "q", "]", "}">>,
   <<"{", "q", ":", "q", "}">>}
  \cup {<<v>> : v \in Scalars}
  \cup {JsonList(items) : items \in UNION {[1..n -> Scalars] : n \in 0..MaxItems}}

JsonError == [type |-> "error", items |-> <<>>]

\* the items between the brackets, or an error
RECURSIVE ListItems(_)
ListItems(tokens) ==
  IF tokens = <<>> THEN <<>>
  ELSE IF Head(tokens) \notin Scalars THEN <<"error">>
  ELSE IF Len(tokens) = 1 THEN <<Head(tokens)>>
  ELSE IF tokens[2] # "," \/ Len(tokens) = 2 THEN <<"error">>
  ELSE <<Head(tokens)>> \o ListItems(SubSeq(tokens, 3, Len(tokens)))

\* json.loads of a scalar, a list of scalars, or an object of one key
RECURSIVE JsonLoads(_)
JsonLoads(tokens) ==
  IF tokens = <<>> THEN JsonError
  ELSE IF Len(tokens) = 1
  THEN CASE tokens[1] = "q" -> [type |-> "str", items |-> <<>>]
         [] tokens[1] = "7" -> [type |-> "int", items |-> <<>>]
         [] tokens[1] = "null" -> [type |-> "null", items |-> <<>>]
         [] OTHER -> JsonError
  ELSE IF tokens[1] = "[" /\ tokens[Len(tokens)] = "]"
  THEN LET items == ListItems(SubSeq(tokens, 2, Len(tokens) - 1))
       IN IF \E i \in DOMAIN items : items[i] = "error" THEN JsonError
          ELSE [type |-> "list", items |-> items]
  ELSE IF /\ tokens[1] = "{" /\ tokens[Len(tokens)] = "}" /\ Len(tokens) >= 5
          /\ tokens[2] = "q" /\ tokens[3] = ":"
          /\ JsonLoads(SubSeq(tokens, 4, Len(tokens) - 1)) # JsonError
  THEN [type |-> "dict", items |-> <<tokens[2]>>]
  ELSE JsonError

\* what "for q in questions" goes through: the items of a list, the keys of
\* a dict, the characters of a str; nothing else can be iterated (TypeError)
Iterable(value) == value.type \in {"list", "dict", "str"}
Iterated(value) ==
  IF value.type = "str" THEN [i \in 1..QuestionChars |-> "char"]
  ELSE value.items

\* isinstance(q, str)
IsStr(q) == q \in {"q", "char"}

\* the try block of generate_follow_ups (generator.py 168-176)
FollowUps(content) ==
  LET questions == JsonLoads(content)
  IN IF content = NoContent \/ questions = JsonError \/ ~Iterable(questions)
     THEN <<>>
     ELSE Take(SelectSeq(Iterated(questions), IsStr), MaxSuggestions)

\* _generate_suggestions (engine.py 349-371): a first query gets the defaults
SuggestStart ==
  /\ generator.pc \in {"idle", "returned", "raised"}
  /\ \E first \in BOOLEAN :
       generator' = [pc |-> IF first THEN "returned" ELSE "call",
                     first |-> first, calls |-> 0, content |-> <<>>,
                     out |-> IF first THEN DefaultSuggestions ELSE <<>>]
  /\ UNCHANGED <<proc, turns, redisUp, flips, caches, db, appended, lastUpdate, torn,
                 emb, embHist, retr, cite, chunker, reranker, cache_manager,
                 cache_service>>

\* generate_follow_ups (generator.py 148-176): the completion call fails, or
\* its content is parsed
FollowUpsCall ==
  /\ generator.pc = "call"
  /\ \/ generator' = [generator EXCEPT !.pc = "raised", !.calls = @ + 1]
     \/ \E content \in Contents :
          generator' = [generator EXCEPT !.pc = "returned", !.calls = @ + 1,
                                         !.content = content,
                                         !.out = FollowUps(content)]
  /\ UNCHANGED <<proc, turns, redisUp, flips, caches, db, appended, lastUpdate, torn,
                 emb, embHist, retr, cite, chunker, reranker, cache_manager,
                 cache_service>>

NextSuggest ==
  \/ SuggestStart
  \/ FollowUpsCall

SpecSuggest == InitUnits /\ [][NextSuggest]_vars

\* ------------------------------------------------- cache service operations
\* CacheService.get, set and delete (services/cache.py 38-84), called one
\* after the other; each call finds the network store reachable or not. The
\* network store drops an entry when its TTL has passed (setex).
\* operations and ticks of the clock in one behaviour
MaxCacheOps == 4
\* the ttl a caller passes, in ticks of the clock
Ttls == {1, 2}

\* what the network store answers a get with
Live(store, key, now) ==
  IF key \in DOMAIN store /\ store[key].value # 0 /\ store[key].expires > now
  THEN store[key].value ELSE 0

\* the entries an in-process store holds
Held(local) == {k \in CacheKeys : local[k].value # 0}

\* time passes
ServiceTick ==
  /\ cache_service.ops < MaxCacheOps
  /\ cache_service' = [cache_service EXCEPT !.now = @ + 1, !.ops = @ + 1]
  /\ UNCHANGED <<proc, turns, redisUp, flips, caches, db, appended, lastUpdate, torn,
                 emb, embHist, retr, cite, chunker, reranker, generator,
                 cache_manager>>

\* set (52-71): the network store takes the value with its ttl; when it
\* fails the value goes to _local_cache, which keeps no ttl (the expiry the
\* entry would have is kept here as history)
ServiceSet ==
  LET c == cache_service
  IN /\ c.ops < MaxCacheOps
     /\ \E key \in CacheKeys, ttl \in Ttls, up \in BOOLEAN :
          LET entry == [value |-> c.ops + 1, expires |-> c.now + ttl]
          IN cache_service' =
               [c EXCEPT !.ops = @ + 1,
                         !.redis = IF up THEN [@ EXCEPT ![key] = entry] ELSE @,
                         !.local = IF up THEN @ ELSE [@ EXCEPT ![key] = entry],
                         !.latest = [@ EXCEPT ![key] = entry.value],
                         !.last = [op |-> "set", key |-> key, up |-> up,
                                   result |-> 0, expires |-> entry.expires,
                                   latest |-> entry.value, at |-> c.now]]
     /\ UNCHANGED <<proc, turns, redisUp, flips, caches, db, appended, lastUpdate, torn,
                    emb, embHist, retr, cite, chunker, reranker, generator,
                    cache_manager>>

\* get (38-50): the value of the network store if it answers with one,
\* otherwise whatever _local_cache holds
ServiceGet ==
  LET c == cache_service
  IN /\ c.ops < MaxCacheOps
     /\ \E key \in CacheKeys, up \in BOOLEAN :
          LET value == IF up THEN Live(c.redis, key, c.now) ELSE 0
              stored == IF value # 0 THEN c.redis[key] ELSE c.local[key]
          IN cache_service' =
               [c EXCEPT !.ops = @ + 1,
                         !.last = [op |-> "get", key |-> key, up |-> up,
                                   result |-> stored.value,
                                   expires |-> stored.expires,
                                   latest |-> c.latest[key], at |-> c.now]]
     /\ UNCHANGED <<proc, turns, redisUp, flips, caches, db, appended, lastUpdate, torn,
                    emb, embHist, retr, cite, chunker, reranker, generator,
                    cache_manager>>

\* delete (73-84): the network store if it answers, and _local_cache
ServiceDelete ==
  LET c == cache_service
  IN /\ c.ops < MaxCacheOps
     /\ \E key \in CacheKeys, up \in BOOLEAN :
          cache_service' =
            [c EXCEPT !.ops = @ + 1,
                      !.redis = IF up THEN [@ EXCEPT ![key] = NoEntry] ELSE @,
                      !.local = [@ EXCEPT ![key] = NoEntry],
                      !.latest = [@ EXCEPT ![key] = 0],
                      !.last = [op |-> "delete", key |-> key, up |-> up,
                                result |-> 0, expires |-> 0, latest |-> 0, at |-> c.now]]
     /\ UNCHANGED <<proc, turns, redisUp, flips, caches, db, appended, lastUpdate, torn,
                    emb, embHist, retr, cite, chunker, reranker, generator,
                    cache_manager>>

NextService ==
  \/ ServiceTick
  \/ ServiceSet
  \/ ServiceGet
  \/ ServiceDelete

SpecService == InitUnits /\ [][NextService]_vars

\* ------------------------------------------------- cache manager operations
\* CacheManager.get, set and delete (core/cache.py 62-120), called one after
\* the other. _local_cache is a dict: its entries are kept in the order in
\* which their keys were first inserted.
\* _max_local_size, scaled down from 1000 so that a behaviour reaches it; the
\* operations fill the store up to one entry beyond it
MaxLocalSize == 2
ManagerKeys == 1..(MaxLocalSize + 1)

\* operations of the manager and ticks of the clock in one behaviour
MaxManagerOps == 3

\* _get_redis (32-54): the first call connects, or gives the network store up
\* for good
Connect(c, ok) ==
  IF c.initialized THEN c ELSE [c EXCEPT !.initialized = TRUE, !.connected = ok]

\* key in self._local_cache, and self._local_cache[key]
LocalHas(local, key) == \E i \in DOMAIN local : local[i].key = key
LocalAt(local, key) == local[CHOOSE i \in DOMAIN local : local[i].key = key]

\* del self._local_cache[key]
LocalDel(local, key) == SelectSeq(local, LAMBDA e : e.key # key)

\* self._local_cache[key] = (value, expires): a key already there keeps its
\* place
LocalPut(local, key, value, expires) ==
  LET e == [key |-> key, value |-> value, expires |-> expires]
  IN IF LocalHas(local, key)
     THEN [i \in DOMAIN local |-> IF local[i].key = key THEN e ELSE local[i]]
     ELSE Append(local, e)

\* sorted(keys, key=expires): equal expiry times keep their order
RECURSIVE InsertByExpiry(_, _)
InsertByExpiry(sorted, e) ==
  IF sorted = <<>> THEN <<e>>
  ELSE IF Head(sorted).expires <= e.expires
  THEN <<Head(sorted)>> \o InsertByExpiry(Tail(sorted), e)
  ELSE <<e>> \o sorted
RECURSIVE SortByExpiry(_)
SortByExpiry(s) ==
  IF s = <<>> THEN <<>>
  ELSE InsertByExpiry(SortByExpiry(SubSeq(s, 1, Len(s) - 1)), s[Len(s)])

\* _cleanup_local_cache (157-173)
CleanupLocalCache(local, now) ==
  LET kept == SelectSeq(local, LAMBDA e : e.expires > now)
      sorted_keys == SortByExpiry(kept)
      oldest == {sorted_keys[i].key : i \in 1..(Len(sorted_keys) \div 2)}
  IN IF Len(kept) >= MaxLocalSize
     THEN SelectSeq(kept, LAMBDA e : e.key \notin oldest)
     ELSE kept

\* time passes
ManagerTick ==
  /\ cache_manager.ops < MaxManagerOps
  /\ cache_manager' = [cache_manager EXCEPT !.now = @ + 1, !.ops = @ + 1]
  /\ UNCHANGED <<proc, turns, redisUp, flips, caches, db, appended, lastUpdate, torn,
                 emb, embHist, retr, cite, chunker, reranker, generator,
                 cache_service>>

\* set (84-105)
ManagerSet ==
  /\ cache_manager.ops < MaxManagerOps
  /\ \E key \in ManagerKeys, ttl \in Ttls, ok \in BOOLEAN, up \in BOOLEAN :
       LET c == Connect(cache_manager, ok)
           stored == c.connected /\ up
           entry == [value |-> c.ops + 1, expires |-> c.now + ttl]
       IN cache_manager' =
            [c EXCEPT !.ops = @ + 1,
                      !.redis = IF stored THEN Put(@, key, entry) ELSE @,
                      !.local = IF stored THEN @
                                ELSE LocalPut(CleanupLocalCache(@, c.now), key,
                                              entry.value, entry.expires),
                      !.latest = Put(@, key, entry.value),
                      !.last = [op |-> "set", key |-> key, up |-> stored,
                                result |-> 0, expires |-> entry.expires,
                                latest |-> entry.value, at |-> c.now]]
  /\ UNCHANGED <<proc, turns, redisUp, flips, caches, db, appended, lastUpdate, torn,
                 emb, embHist, retr, cite, chunker, reranker, generator,
                 cache_service>>

\* get (62-82): an entry of _local_cache that has expired is deleted and not
\* returned
ManagerGet ==
  /\ cache_manager.ops < MaxManagerOps
  /\ \E key \in ManagerKeys, ok \in BOOLEAN, up \in BOOLEAN :
       LET c == Connect(cache_manager, ok)
           value == IF c.connected /\ up THEN Live(c.redis, key, c.now) ELSE 0
           here == value = 0 /\ LocalHas(c.local, key)
           fresh == here /\ LocalAt(c.local, key).expires > c.now
       IN cache_manager' =
            [c EXCEPT !.ops = @ + 1,
                      !.local = IF here /\ ~fresh THEN LocalDel(@, key) ELSE @,
                      !.last = [op |-> "get", key |-> key, up |-> c.connected /\ up,
                                result |-> IF value # 0 THEN value
                                           ELSE IF fresh
                                           THEN LocalAt(c.local, key).value
                                           ELSE 0,
                                expires |-> IF value # 0 THEN c.redis[key].expires
                                            ELSE IF fresh
                                            THEN LocalAt(c.local, key).expires
                                            ELSE 0,
                                latest |-> Get(c.latest, key, 0), at |-> c.now]]
  /\ UNCHANGED <<proc, turns, redisUp, flips, caches, db, appended, lastUpdate, torn,
                 emb, embHist, retr, cite, chunker, reranker, generator,
                 cache_service>>

\* delete (107-120)
ManagerDelete ==
  /\ cache_manager.ops < MaxManagerOps
  /\ \E key \in ManagerKeys, ok \in BOOLEAN, up \in BOOLEAN :
       LET c == Connect(cache_manager, ok)
       IN cache_manager' =
            [c EXCEPT !.ops = @ + 1,
                      !.redis = IF c.connected /\ up
                                THEN Put(@, key, NoEntry) ELSE @,
                      !.local = LocalDel(@, key),
                      !.latest = Put(@, key, 0),
                      !.last = [op |-> "delete", key |-> key,
                                up |-> c.connected /\ up,
                                result |-> 0, expires |-> 0, latest |-> 0, at |-> c.now]]
  /\ UNCHANGED <<proc, turns, redisUp, flips, caches, db, appended, lastUpdate, torn,
                 emb, embHist, retr, cite, chunker, reranker, generator,
                 cache_service>>

NextManager ==
  \/ ManagerTick
  \/ ManagerSet
  \/ ManagerGet
  \/ ManagerDelete

SpecManager == InitUnits /\ [][NextManager]_vars

\* ------------------------------------------------------------ lead capture
\* capture_lead (api/v1/leads.py 25-155) for a lead that names a session, run
\* between two requests of a session that has a durable row. The lead's own
\* row and the notification are outside the model.
\* requests started in one behaviour of SpecLead
MaxLeadTurns == 2
Leads == {"L1"}

\* supabase_service.update_session(session_id, {"lead_id": ...}) (69-72,
\* 134-137): the row's other columns stay
LinkRow(s, lead) == [db EXCEPT ![s] = [db[s] EXCEPT !.lead_id = lead]]

\* the lead's email is known (47-85): the session row is linked, and
\* cache_service.set_session stores the dict {"lead_id": ...} as the cached
\* session (73-76)
CaptureExistingLead(s, lead) ==
  /\ \A p \in Procs : proc[p].pc \in Terminal
  /\ db[s].exists
  /\ db' = LinkRow(s, lead)
  /\ redisSess' = CacheSetRedis(redisSess, s, [lead_id |-> lead])
  /\ localSess' = CacheSetLocal(localSess, s, [lead_id |-> lead])
  /\ UNCHANGED <<proc, turns, redisUp, flips, redisQuery, localQuery, redisEmb,
                 localEmb, appended, lastUpdate, torn, emb, embHist, units>>

\* a new lead (87-145): the session row is linked (132-137), the cached
\* session is not touched
CaptureNewLead(s, lead) ==
  /\ \A p \in Procs : proc[p].pc \in Terminal
  /\ db[s].exists
  /\ db' = LinkRow(s, lead)
  /\ UNCHANGED <<proc, turns, redisUp, flips, caches, appended, lastUpdate,
                 torn, emb, embHist, units>>

NextLead ==
  \/ StartQuery(1, MaxLeadTurns)
  \/ Step(1)
  \/ \E s \in Sessions, lead \in Leads : CaptureExistingLead(s, lead)
  \/ \E s \in Sessions, lead \in Leads : CaptureNewLead(s, lead)

SpecLead == Init /\ [][NextLead]_vars

\* ------------------------------------------------------------- properties
\* the stages of spec section 5, in its order
StageOrder ==
  <<"cache-check", "history-load", "metadata-extract", "retrieve", "rerank",
    "generate", "session-update", "cache-write", "respond">>

\* one list is the beginning of the other
IsPrefix(s, t) == Len(s) <= Len(t) /\ SubSeq(t, 1, Len(s)) = s

\* the name under which the messages and the response of a request are stored
TurnOf(r) == TurnNames[r.turn]

\* whether a list of messages holds a message of the turn
HasTurn(msgs, t) == \E i \in DOMAIN msgs : msgs[i].turn = t

\* the messages of a cached session record, if there is one
CachedMessages(store, s) ==
  IF s \in DOMAIN store THEN Get(store[s], "messages", <<>>) ELSE <<>>

\* nothing stored anywhere comes from the request
NoTrace(r) ==
  /\ ~HasTurn(db[r.session].messages, TurnOf(r))
  /\ ~HasTurn(appended[r.session], TurnOf(r))
  /\ ~HasTurn(CachedMessages(redisSess, r.session), TurnOf(r))
  /\ ~HasTurn(CachedMessages(localSess, r.session), TurnOf(r))
  /\ \A k \in DOMAIN redisQuery : redisQuery[k].turn # TurnOf(r)
  /\ \A k \in DOMAIN localQuery : localQuery[k].turn # TurnOf(r)

\* C1: a process_query request that missed the response cache has entered
\* the stages in the order cache-check, history-load, metadata-extract,
\* retrieve, rerank, generate, session-update, cache-write, respond, none
\* skipped and none repeated (what it has entered so far is a prefix of that
\* list), and it has a response to return only when it has entered them all.
C1_StagesInOrder ==
  \A p \in Procs :
    LET r == proc[p]
    IN (r.kind = "query" /\ ~r.hit) =>
         /\ IsPrefix(r.stages, StageOrder)
         /\ (r.pc = "done" => r.stages = StageOrder)
         /\ (r.response # <<>> => r.pc = "done" /\ r.stages = StageOrder)

C1_Witness ==
  \E p \in Procs :
    /\ proc[p].kind = "query" /\ proc[p].pc = "done" /\ ~proc[p].hit
    /\ proc[p].stages = StageOrder

\* C2: whatever process_query requests have run, one after the other or
\* overlapping, no entry of the query-response cache (network store or
\* in-process fallback) is a response with requires_email = true.
C2_NoGatedResponseCached ==
  /\ \A k \in DOMAIN redisQuery : ~redisQuery[k].requires_email
  /\ \A k \in DOMAIN localQuery : ~localQuery[k].requires_email

C2_Witness ==
  \E p \in Procs :
    /\ proc[p].kind = "query" /\ proc[p].pc = "done" /\ ~proc[p].hit
    /\ proc[p].response.requires_email
    /\ ~proc[p].wrote_resp

\* C3: a request misses the response cache only if no response is cached for
\* a query with the same normalized text (case folded, whitespace stripped
\* and squeezed) and the same region.
C3_NormalizedKey ==
  LET r == proc[1]
  IN (r.kind = "query" /\ r.pc = "sess_cache" /\ r.caller = "query") =>
       \A req \in Requests :
         (NormalizeQuery(req[1]) = NormalizeQuery(r.query) /\ req[2] = r.borough)
           => ~CacheHas(redisQuery, localQuery, QueryKey(req[1], req[2]))

\* stored the incremented query_count.
C5_EveryReturnAppended ==
  \A p \in Procs :
    LET r == proc[p]
        log == appended[r.session]
    IN (r.kind = "query" /\ r.pc = "done") =>
         /\ r.wrote_db
         /\ \E i \in 1..(Len(log) - 1) :
              /\ log[i] = UserMessage(r.query, r.turn)
              /\ log[i + 1] = AssistantMessage(r.response.message, r.turn)

\* the concatenation of fragments, in their order
RECURSIVE Concat(_)
Concat(fs) == IF fs = <<>> THEN <<>> ELSE Head(fs) \o Concat(Tail(fs))

\* C6: a streaming request that was cancelled or whose completion stream
\* failed before the stream was consumed to its end has written nothing of
\* its turn, neither to the durable store nor to the session cache; a
\* streaming request writes the session only after the stream's end, and the
\* assistant message it stores is the concatenation of the fragments it
\* yielded, in the order it yielded them.
C6_NoPartialTurn ==
  LET r == proc[1]
      log == appended[r.session]
  IN r.kind = "stream" =>
       /\ (r.pc \in {"cancelled", "failed"} /\ ~r.consumed) =>
            ~r.wrote_db /\ ~r.wrote_cache /\ NoTrace(r)
       /\ (r.wrote_db \/ r.wrote_cache \/ ~NoTrace(r)) => r.consumed
       /\ \A i \in DOMAIN log :
            (log[i].turn = TurnOf(r) /\ log[i].role = "assistant") =>
              log[i].content = Concat(r.yielded)

C6_Witness ==
  LET r == proc[1]
  IN /\ r.kind = "stream" /\ r.pc = "cancelled"
     /\ Len(r.yielded) >= 1 /\ ~r.consumed

\* the causes a request can fail of: each is a failed call of its own, or
\* the refusal of its empty query
CallFailures ==
  {"none", "durable", "input", "embedding", "vector-index", "completion",
   "follow-ups", "session-write", "serialization"}

\* it is stored: no session update, no cached response.
C10_GenerateOnce ==
  \A p \in Procs :
    LET r == proc[p]
        entered == \E i \in DOMAIN r.stages : r.stages[i] = "generate"
    IN r.kind = "query" =>
         /\ r.gen_calls = IF entered THEN 1 ELSE 0
         /\ r.failure = "completion" =>
              /\ r.pc = "failed" /\ r.gen_calls = 1
              /\ ~r.wrote_db /\ ~r.wrote_cache /\ ~r.wrote_resp
              /\ NoTrace(r)

C10_Witness ==
  \E p \in Procs :
    /\ proc[p].kind = "query" /\ proc[p].failure = "completion"
    /\ proc[p].pc = "failed" /\ proc[p].gen_calls = 1

\* the calls a request for these texts makes when none was cached before it
CallsFor(r) == IF NonBlank(r.texts) \subseteq r.before THEN 0 ELSE 1

\* the call is given up only when the third has failed
C9_Step ==
  /\ emb'.attempts > emb.attempts =>
       /\ emb.pc \in {"call", "batch"}
       /\ emb'.attempts = emb.attempts + 1
       /\ emb.attempts < MaxAttempts
  /\ (emb.pc \in {"call", "batch"} /\ emb'.pc = "raised") =>
       emb.attempts = MaxAttempts - 1 /\ emb'.error = "RetryError"
  /\ (emb.pc \in {"call", "batch"} /\ emb'.pc \in {"set", "store", "returned"}) =>
       emb'.attempts = emb.attempts + 1
  /\ emb.pc \in {"set", "store"} =>
       /\ emb'.pc \in {"returned", "batch"}
       /\ emb'.pc = "returned" => emb'.attempts = emb.attempts

C9_State ==
  /\ emb.attempts <= MaxAttempts
  /\ emb.pc \in {"set", "store"} => emb.attempts >= 1
  /\ (emb.pc = "raised" /\ emb.error = "RetryError") =>
       /\ emb.attempts = MaxAttempts
       /\ emb.sets = {}
       /\ emb.use_cache =>
            \A t \in emb.called : ~CacheHas(redisEmb, localEmb, t)
       /\ \A i \in DOMAIN emb.out :
            emb.texts[i] \in emb.called => emb.out[i] # ZeroVector

\* C9: a call to the embedding service is attempted at most 3 times: a
\* failed attempt is followed by another, a successful attempt ends the call
\* with no further attempt, and when the third attempt has failed the request
\* ends in failure: nothing of it is cached and no zero vector stands in.
C9_AtMostThreeAttempts == []C9_State /\ [][C9_Step]_vars

C9_Witness ==
  /\ emb.pc = "raised" /\ emb.error = "RetryError"
  /\ emb.attempts = 3 /\ emb.calls = 1

\* the lexical score divided by the maximum of the candidate set, or 0 for
\* every candidate when that maximum is 0
ClaimedNormalized(bm25_scores, i) ==
  LET m == MaxOf(bm25_scores)
  IN IF m = 0 THEN 0
     ELSE IF m > 0 THEN (100 * bm25_scores[i]) \div m
     ELSE (100 * (0 - bm25_scores[i])) \div (0 - m)

\* C11: a hybrid search asks the index for min(3 * topK, 50) candidates at
\* a threshold below the acceptance threshold, gives each candidate
\* vectorWeight * similarity + lexicalWeight * (lexical score / maximum
\* lexical score, or 0 for all when the maximum is 0), and returns at most
\* topK of the candidates, those of highest combined score, in descending
\* order; similarities 0.9, 0.6 with normalized lexical scores 0.2, 1.0
\* give 0.69, 0.72 and the second candidate first.
C11_HybridFusion ==
  (retr.pc = "returned" /\ retr.vector_results # <<>>) =>
    LET out == retr.out
        rows == retr.vector_results
        claimed(i) == VectorWeight * rows[i].similarity_score
                        + Bm25Weight * ClaimedNormalized(retr.bm25_scores, i)
    IN /\ retr.match_count = Min(3 * retr.top_k, 50)
       /\ retr.match_threshold < retr.threshold
       /\ Len(out) = Min(retr.top_k, Len(rows))
       /\ \A i \in DOMAIN out :
            /\ out[i].id \in DOMAIN rows
            /\ out[i].combined_score = claimed(out[i].id)
       /\ \A i, j \in DOMAIN out :
            i < j => /\ out[i].id # out[j].id
                     /\ out[i].combined_score >= out[j].combined_score
       /\ \A k \in DOMAIN rows :
            (\A i \in DOMAIN out : out[i].id # k) =>
              \A i \in DOMAIN out : out[i].combined_score >= claimed(k)
       /\ ( /\ Len(rows) = 2
            /\ rows[1].similarity_score = 90 /\ rows[2].similarity_score = 60
            /\ retr.bm25_scores = <<1, 5>> ) =>
            /\ claimed(1) = 6900 /\ claimed(2) = 7200
            /\ out[1].id = 2
            /\ Len(out) = 2 => out[2].id = 1

\* C12: whatever the answer text and the context results, at most 5
\* citations are returned, no two of them bear the same document name, and
\* each is the projection of a context result: the citations follow the
\* order of the context, and the one for a document is made from the first
\* result of that document that was taken as cited.
C12_Citations ==
  cite.pc = "returned" =>
    LET out == cite.out
        results == cite.results
    IN /\ Len(out) <= 5
       /\ \A i, j \in DOMAIN out :
            i < j => /\ out[i].document_name # out[j].document_name
                     /\ out[i].chunk_id < out[j].chunk_id
       /\ \A i \in DOMAIN out :
            /\ out[i].chunk_id \in DOMAIN results
            /\ out[i] = Projection(results[out[i].chunk_id])
            /\ IsCited(results[out[i].chunk_id], cite.response)
            /\ \A k \in 1..(out[i].chunk_id - 1) :
                 (results[k].document_name = out[i].document_name)
                   => ~IsCited(results[k], cite.response)

C12_Witness ==
  /\ cite.pc = "returned"
  /\ Len(cite.out) = 5
  /\ Len(Dedupe(CitedResults(cite.results, cite.response), {})) = 6

\* the calls that follow retrieval and can fail a request
LaterFailures ==
  {"none", "durable", "completion", "follow-ups", "session-write",
   "serialization"}

\* C13: when the vector index answers a process_query request with no
\* candidates, the request does not fail of it: it fails only if a later call
\* fails, and when it is done it has entered rerank and generate, called the
\* completion service once with the context "No relevant documents found.",
\* returns a response with no citations, and has stored its turn in the
\* session as any completed request does.
C13_EmptyRetrieval ==
  \A p \in Procs :
    LET r == proc[p]
        log == appended[r.session]
    IN (/\ r.kind = "query" /\ r.idx_calls = 1 /\ r.failure # "vector-index"
        /\ IndexResults(r.query) = <<>>) =>
         /\ r.failure \in LaterFailures
         /\ r.results = <<>>
         /\ IsPrefix(<<"cache-check", "history-load", "metadata-extract",
                       "retrieve", "rerank">>, r.stages)
         /\ r.pc = "done" =>
              /\ r.stages = StageOrder
              /\ r.gen_calls = 1
              /\ r.context = "No relevant documents found."
              /\ r.response.citations = <<>>
              /\ r.response.message = ResponseText(r.turn)
              /\ r.wrote_db
              /\ \E i \in 1..(Len(log) - 1) :
                   /\ log[i] = UserMessage(r.query, r.turn)
                   /\ log[i + 1] = AssistantMessage(r.response.message, r.turn)

C13_Witness ==
  \E p \in Procs :
    /\ proc[p].kind = "query" /\ proc[p].pc = "done" /\ ~proc[p].hit
    /\ proc[p].idx_calls = 1 /\ proc[p].results = <<>>
    /\ proc[p].context = "No relevant documents found."
    /\ proc[p].response.citations = <<>>

\* the request was handed to the engine with a blank query text
BlankQuery(r) ==
  /\ r.kind # "none" /\ r.failure # "sanitize" /\ Strip(r.query) = <<>>

\* a blank query has come no further than the embedding call
C14_State ==
  \A p \in Procs :
    LET r == proc[p]
    IN BlankQuery(r) =>
         /\ r.pc \in {"cache_check", "sess_cache", "sess_db", "sess_db_wb",
                       "sess_create", "sess_create_wb", "embed", "failed",
                       "cancelled"}
         /\ r.failure \in {"none", "durable", "input"}
         /\ r.idx_calls = 0 /\ r.gen_calls = 0
         /\ r.results = <<>> /\ r.yielded = <<>> /\ r.response = <<>>
         /\ ~r.wrote_db /\ ~r.wrote_cache /\ ~r.wrote_resp
         /\ NoTrace(r)
         /\ ~CacheHas(redisEmb, localEmb, r.query)

\* the embedding step of a blank query ends the request with the input error
\* (or its consumer has gone away) and leaves every store as it is
C14_Step ==
  \A p \in Procs :
    (BlankQuery(proc[p]) /\ proc[p].pc = "embed") =>
      /\ proc'[p].pc \in {"failed", "cancelled"}
      /\ proc'[p].pc = "failed" => proc'[p].failure = "input"
      /\ UNCHANGED <<caches, db, appended, lastUpdate, emb, embHist>>

\* C14: a request whose query text is empty or whitespace-only is refused
\* with the input error at the embedding step, before retrieval: the
\* embedding service and the vector index are not called for it, the step is
\* not repeated, and no generation, session update or cache write follows.
C14_BlankQueryRejected == []C14_State /\ [][C14_Step]_vars

C14_Witness ==
  \E p \in Procs :
    /\ BlankQuery(proc[p]) /\ proc[p].kind = "query"
    /\ proc[p].pc = "failed" /\ proc[p].failure = "input"
    /\ proc[p].stages = <<"cache-check", "history-load", "metadata-extract",
                          "retrieve">>

\* no request fails of the analytics write, and one whose analytics write
\* failed goes on; one whose session write failed has ended in failure with
\* no response, and nothing of it is in the response cache
C15_State ==
  \A p \in Procs :
    LET r == proc[p]
    IN /\ r.failure \in CallFailures \cup {"sanitize"}
       /\ r.analytics = "failed" =>
            r.kind = "query" /\ r.pc = "cache_write" /\ r.failure = "none"
       /\ r.failure = "session-write" =>
            /\ r.pc = "failed" /\ r.response = <<>> /\ ~r.wrote_resp
            /\ r.client.status # 200 \/ r.kind = "stream"
            /\ \A k \in DOMAIN redisQuery : redisQuery[k].turn # TurnOf(r)
            /\ \A k \in DOMAIN localQuery : localQuery[k].turn # TurnOf(r)

\* the analytics step leaves the request, but for the mark of its outcome, as
\* it is left when the write succeeds, and every store as it is; the step
\* after it returns the response built from the request and caches it unless
\* it requires an email
C15_Step ==
  \A p \in Procs :
    LET r == proc[p]
        k == QueryKey(r.query, r.borough)
    IN /\ r.pc = "analytics" =>
            /\ [proc'[p] EXCEPT !.analytics = "logged"] =
                 [r EXCEPT !.pc = "cache_write", !.analytics = "logged",
                           !.req_email = RequiresEmail(r)]
            /\ UNCHANGED <<caches, db, appended, lastUpdate>>
       /\ r.pc = "cache_write" =>
            /\ proc'[p].pc = "done"
            /\ proc'[p].response = BuildResponse(r)
            /\ IF r.req_email
               THEN UNCHANGED <<redisQuery, localQuery>>
               ELSE CacheGet(redisQuery', localQuery', k) = BuildResponse(r)

\* C15: of the two durable writes of process_query only the session write can
\* fail the request. When the analytics write fails the request goes on as
\* when it succeeds: the same response is returned, and cached when it does
\* not require an email. When the session write fails the request ends in
\* failure, returns no response and writes no response-cache entry.
C15_OnlySessionWriteFatal == []C15_State /\ [][C15_Step]_vars

C15_Witness ==
  \E p \in Procs :
    /\ proc[p].kind = "query" /\ proc[p].pc = "cache_write"
    /\ proc[p].analytics = "failed" /\ proc[p].wrote_db
    /\ ~proc[p].req_email

\* a request that ended of its failed session write
C15_WitnessSessionWrite ==
  \E p \in Procs :
    /\ proc[p].kind = "query" /\ proc[p].pc = "failed"
    /\ proc[p].failure = "session-write" /\ proc[p].client.status = 500

\* the services whose failure text comes from outside
UpstreamFailures == {"embedding", "vector-index", "completion"}

\* C17: what the client of /chat/query or /chat/query/stream has received
\* for a request that failed of the embedding, vector-index or completion
\* service is what it would have received had the service given any other
\* error text.
C17_NoUpstreamText ==
  \A p \in Procs :
    LET r == proc[p]
    IN (/\ r.endpoint # "none" /\ r.pc = "failed"
        /\ r.failure \in UpstreamFailures /\ r.client # NoReply) =>
         \A e \in ErrTexts : r.client = Reply(r, e)

\* C20: a message that sanitize_input refuses is answered by /chat/query
\* with status 400, never with a 5xx status, and the request has made no
\* retrieval, no generation and no change to a session.
C20_InjectionRejected ==
  \A p \in Procs :
    LET r == proc[p]
    IN (r.endpoint = "query" /\ Refused(r.message)) =>
         /\ r.pc = "failed" /\ r.failure = "sanitize"
         /\ r.stages = <<>> /\ r.idx_calls = 0 /\ r.gen_calls = 0
         /\ ~r.wrote_db /\ ~r.wrote_cache /\ ~r.wrote_resp /\ NoTrace(r)
         /\ r.client # NoReply => r.client.status = 400

\* C16: a failure of the network cache store changes no answer: a
\* process_query request that ran while the store was unreachable and has
\* returned a response it did not take from the response cache reports the
\* query count a working cache gives it, the number of turns stored for its
\* session, its own included (sessions with an update abandoned between its
\* two writes aside).
C16_SameAnswer ==
  \A p \in Procs :
    LET r == proc[p]
    IN (/\ r.kind = "query" /\ r.pc = "done" /\ ~r.hit /\ ~redisUp
        /\ r.session \notin torn) =>
         2 * r.response.query_count = Len(appended[r.session])

\* C18: every chunk chunk_text has made, other than the pieces of the forced
\* split of an over-long sentence, has a token count of at most the chunk
\* size, also when its content began with overlap carried over from the chunk
\* closed before it, at paragraph level and at sentence level.
C18_TokenCountBound ==
  chunker.pc = "returned" =>
    \A i \in DOMAIN chunker.chunks :
      chunker.chunks[i].level # "forced" =>
        chunker.chunks[i].token_count <= ChunkSize

\* C19: in the chunks of one text, in chunk-index order, start_char never
\* decreases, every chunk has end_char - start_char equal to the length of
\* its content, and two chunks share no more of their character ranges than
\* the later one carries as overlap; also for the chunks of sentence-level
\* and of forced splitting.
C19_Offsets ==
  chunker.pc = "returned" =>
    LET chunks == chunker.chunks
        Shared(a, b) ==
          LET lo == IF a.start_char > b.start_char THEN a.start_char
                    ELSE b.start_char
              hi == Min(a.end_char, b.end_char)
          IN IF hi > lo THEN hi - lo ELSE 0
    IN /\ \A i \in DOMAIN chunks :
            /\ chunks[i].chunk_index = i - 1
            /\ chunks[i].end_char - chunks[i].start_char = chunks[i].length
       /\ \A i, j \in DOMAIN chunks :
            i < j => /\ chunks[i].start_char <= chunks[j].start_char
                     /\ Shared(chunks[i], chunks[j]) <= chunks[j].overlap

\* the steps that hand a loaded session back to its caller
LoadPcs == {"sess_cache", "sess_db", "sess_db_wb", "sess_create", "sess_create_wb"}
FallbackPcs == {"sess_db", "sess_db_wb", "sess_create", "sess_create_wb"}

\* what the caller of _get_session holds when it has returned
Loaded(r) == IF r.pc = "upd_db" THEN r.usd ELSE r.sd

\* the load of a session goes from the cache to the durable store to the
\* creation only on a miss, and gives back what the cache then holds
C21_Step ==
  /\ \A s \in Sessions :
       (db'[s].exists /\ ~db[s].exists) =>
          \E p \in Procs : proc[p].pc = "sess_create" /\ proc[p].session = s
  /\ \A p \in Procs :
       LET r == proc[p]
           s == r.session
           n == proc'[p]
       IN /\ (r.pc = "sess_cache" /\ n # r /\ n.pc # "cancelled") =>
               IF CacheHas(redisSess, localSess, s)
               THEN /\ n.pc \in {"upd_db", "embed"}
                    /\ Loaded(n) = CacheGet(redisSess, localSess, s)
                    /\ UNCHANGED <<caches, db>>
               ELSE n.pc = "sess_db" /\ UNCHANGED <<caches, db>>
          /\ (n.pc = "sess_db" /\ r.pc # "sess_db") =>
               r.pc = "sess_cache" /\ ~CacheHas(redisSess, localSess, s)
          /\ (n.pc = "sess_db_wb" /\ r.pc # "sess_db_wb") =>
               r.pc = "sess_db" /\ db[s].exists /\ n.loaded = RowDict(s)
          /\ (n.pc = "sess_create" /\ r.pc # "sess_create") =>
               r.pc = "sess_db" /\ ~db[s].exists
          /\ (n.pc = "sess_create_wb" /\ r.pc # "sess_create_wb") =>
               /\ r.pc = "sess_create" /\ ~db[s].exists /\ db'[s] = NewRow
               /\ n.loaded = [id |-> s, messages |-> <<>>, query_count |-> 0]
          /\ (r.pc \in {"sess_db_wb", "sess_create_wb"} /\ n # r /\ n.pc # "cancelled") =>
               /\ n.pc \in {"upd_db", "embed"}
               /\ Loaded(n) = r.loaded
               /\ CacheHas(redisSess', localSess', s)
               /\ CacheGet(redisSess', localSess', s) = r.loaded

\* a request that has a loaded session finds it in the cache: the load its
\* session update makes is the second of the request, and it never goes to
\* the durable store
C21_State ==
  \A p \in Procs :
    LET r == proc[p]
    IN /\ r.pc \notin (Terminal \cup LoadPcs \cup {"cache_check"}) =>
            CacheHas(redisSess, localSess, r.session)
       /\ r.caller = "update" => r.pc \notin FallbackPcs

\* C21: loading a session reads the session cache first; the durable store
\* is read only when the cache has no entry; an empty session (no messages,
\* query_count 0) is created only when the durable store has no row either;
\* in both fallback cases what was fetched or created is in the cache when
\* it is handed to the caller, so that the next load of the session, the one
\* of the request's own session update included, is answered from the cache.
C21_CacheThenStore == []C21_State /\ [][C21_Step]_vars

C21_Witness ==
  \E p \in Procs :
    /\ proc[p].kind = "query" /\ proc[p].pc = "upd_db"
    /\ proc[p].caller = "update"
    /\ db[proc[p].session] = NewRow
    /\ proc[p].usd = [id |-> proc[p].session, messages |-> <<>>, query_count |-> 0]

\* the list is in descending order of the score the reranker starts from
SortedByBase(results) ==
  \A i, j \in DOMAIN results : i < j => BaseScore(results[i]) >= BaseScore(results[j])

\* no term of the query occurs in the content or the section title of a result
NoTermMatches(query, results) ==
  \A term \in Split(Lower(query), <<>>), i \in DOMAIN results :
    /\ ~Contains(Lower(results[i].content), term)
    /\ ~Contains(Lower(results[i].section_title), term)

\* top_k or self.top_k
EffectiveTopK(top_k) == IF top_k # 0 THEN top_k ELSE RerankTopK

\* C22 as the spec states it: a list in descending order of score in which no
\* query term occurs in a content or a section title comes back from the
\* enabled reranker in the order of the input, cut to topK.
C22_SameOrder ==
  (/\ reranker.pc = "returned"
   /\ SortedByBase(reranker.results)
   /\ NoTermMatches(reranker.query, reranker.results)) =>
     reranker.out = Take(reranker.results, EffectiveTopK(reranker.top_k))

\* C22: the enabled reranker returns the first topK results in descending
\* order of adjusted score, results of equal adjusted score in their original
\* order. A list in descending order of score comes back in the order of the
\* input, cut to topK, when the query has at least one term, no term of it
\* occurs in a content or a section title, and the page boost is the same for
\* all results (none, or every one, has a page number from 1 to 19).
C22_RerankStable ==
  reranker.pc = "returned" =>
    LET out == reranker.out
        results == reranker.results
        query == reranker.query
        adjusted(x) == HeuristicScore(query, x)
    IN /\ Len(out) = Min(EffectiveTopK(reranker.top_k), Len(results))
       /\ \A i \in DOMAIN out :
            /\ out[i].chunk_id \in DOMAIN results
            /\ out[i] = results[out[i].chunk_id]
       /\ \A i, j \in DOMAIN out :
            i < j =>
              /\ adjusted(out[i]) >= adjusted(out[j])
              /\ adjusted(out[i]) = adjusted(out[j]) =>
                   out[i].chunk_id < out[j].chunk_id
       /\ \A k \in DOMAIN results :
            (\A i \in DOMAIN out : out[i].chunk_id # k) =>
              \A i \in DOMAIN out : adjusted(out[i]) >= adjusted(results[k])
       /\ ( /\ SortedByBase(results)
            /\ Split(Lower(query), <<>>) # {}
            /\ NoTermMatches(query, results)
            /\ \A i, j \in DOMAIN results :
                 PageBoostOf(results[i]) = PageBoostOf(results[j]) ) =>
            out = Take(results, EffectiveTopK(reranker.top_k))

C22_Witness ==
  /\ reranker.pc = "returned"
  /\ Len(reranker.results) = 2
  /\ Split(Lower(reranker.query), <<>>) # {}
  /\ NoTermMatches(reranker.query, reranker.results)
  /\ BaseScore(reranker.results[1]) = BaseScore(reranker.results[2])
  /\ PageBoostOf(reranker.results[1]) = PageBoost
  /\ PageBoostOf(reranker.results[2]) = PageBoost
  /\ reranker.results[1] # [reranker.results[2] EXCEPT !.chunk_id = 1]
  /\ reranker.out = reranker.results

\* the content is the expected list of question strings
IsQuestionList(content) ==
  /\ content # NoContent
  /\ JsonLoads(content).type = "list"
  /\ \A i \in DOMAIN JsonLoads(content).items : JsonLoads(content).items[i] = "q"

\* C23: the suggestions returned are at most 3; the first query of a session
\* gets the fixed defaults without a call of the completion service; a
\* content that is not JSON, is missing, or is JSON but not a list gives the
\* empty list; the expected list of question strings gives its first 3; and
\* nothing but a failed completion call makes the call raise.
C23_FollowUps ==
  /\ generator.pc = "returned" =>
       /\ Len(generator.out) <= 3
       /\ generator.first =>
            generator.out = DefaultSuggestions /\ generator.calls = 0
       /\ ~generator.first =>
            /\ generator.calls = 1
            /\ IsQuestionList(generator.content) =>
                 generator.out = Take(JsonLoads(generator.content).items, 3)
            /\ (generator.content = NoContent
                \/ JsonLoads(generator.content).type # "list") =>
                 generator.out = <<>>
  /\ generator.pc = "raised" => generator.calls = 1 /\ ~generator.first

\* the in-process store of the cache manager holds no more entries than its
\* size cap, and its get returns no entry whose TTL has passed
ManagerBounded ==
  /\ Len(cache_manager.local) <= MaxLocalSize
  /\ (cache_manager.last.op = "get" /\ cache_manager.last.result # 0) =>
       cache_manager.last.expires > cache_manager.last.at

\* C24: the in-process fallback store of the cache service, which backs the
\* embedding cache and the query-response cache while the network store
\* fails, never holds more entries than a size cap, and get never returns an
\* entry whose TTL has passed.
C24_BoundedFallback ==
  /\ Cardinality(Held(cache_service.local)) <= MaxLocalSize
  /\ (cache_service.last.op = "get" /\ cache_service.last.result # 0) =>
       cache_service.last.expires > cache_service.last.at

\* C30: get(key) of the cache service returns a miss or the value given to the
\* most recent set(key) that no delete(key) followed, whether the network
\* store fails or works for the single operations.
C30_LatestValue ==
  cache_service.last.op = "get" =>
    cache_service.last.result \in {0, cache_service.last.latest}

\* the session as _get_session would load it: the cached copy, else the row
StoredSession(s) ==
  IF CacheHas(redisSess, localSess, s) THEN CacheGet(redisSess, localSess, s)
  ELSE RowDict(s)

\* the durable row and the copy a load would give both say: no lead, and a
\* query_count at which the next query requires the email
AtGate(s) ==
  /\ db[s].exists
  /\ db[s].lead_id = None
  /\ db[s].query_count >= RequireEmailAfter - 1
  /\ Get(StoredSession(s), "lead_id", None) = None
  /\ Get(StoredSession(s), "query_count", 0) >= RequireEmailAfter - 1

\* a request returns its response: from the cache at Step 1, or built at the
\* end
C25_Step ==
  \A p \in Procs :
    (/\ LeadCaptureEnabled
     /\ proc[p].pc \notin Terminal
     /\ proc'[p].pc = "done"
     /\ proc'[p].kind = "query") =>
       /\ (proc[p].pc = "cache_check" /\ AtGate(proc[p].session)) =>
            proc'[p].response.requires_email
       /\ (/\ proc[p].pc = "cache_write"
           /\ Get(proc[p].sd, "lead_id", None) = None
           /\ proc[p].qc - 1 >= RequireEmailAfter - 1) =>
            proc'[p].response.requires_email

\* C25: with lead capture enabled, a response that process_query returns to a
\* session without a lead whose stored query_count is at least
\* require_email_after - 1 has requires_email = true, whether the answer was
\* generated or came from the query-response cache.
C25_EmailGate == [][C25_Step]_vars

\* the query_count a session had before the first request, and the session
\* updates stored since
InitialCount(s) ==
  IF appended[s] # <<>> /\ appended[s][1].turn = SeedName(1) THEN SeedTurns
  ELSE 0
UpdatesStored(s) == (Len(appended[s]) - 2 * InitialCount(s)) \div 2

\* the process_query calls on a session that have returned a generated answer
Completed(s) ==
  {p \in Procs : /\ proc[p].pc = "done" /\ proc[p].kind = "query"
                 /\ ~proc[p].hit /\ proc[p].session = s}

\* messages of the turn
C26_Step ==
  \A p \in Procs :
    LET r == proc[p]
        s == r.session
    IN (/\ r.pc = "upd_db" /\ r.kind = "query"
        /\ proc'[p].pc = "upd_cache"
        /\ db[s].exists
        /\ db[s].query_count = r.qc - 1
        /\ db[s].messages = r.umsgs) =>
          /\ db'[s].query_count = db[s].query_count + 1
          /\ db'[s].messages =
               LastN(db[s].messages \o
                       <<UserMessage(r.query, r.turn),
                         AssistantMessage(r.text, r.turn)>>, HistoryCap)

\* that ran (every one of them having made both its writes).
C27_CopiesAgree ==
  \A s \in Sessions :
    (/\ \A p \in Procs : proc[p].session = s => proc[p].pc \in {"idle", "done"}
     /\ s \notin torn
     /\ db[s].exists
     /\ CacheHas(redisSess, localSess, s)) =>
       /\ Get(CacheGet(redisSess, localSess, s), "messages", <<>>) = db[s].messages
       /\ Get(CacheGet(redisSess, localSess, s), "query_count", 0) = db[s].query_count

\* C28: a process_query request whose completion call for the follow-up
\* suggestions failed does not fail: it returns the answer it generated, and
\* its turn is recorded in the session.
C28_SuggestionsNotFatal ==
  \A p \in Procs :
    LET r == proc[p]
    IN (r.kind = "query" /\ r.failure = "follow-ups") =>
         /\ r.pc # "failed"
         /\ r.pc = "done" =>
              /\ r.response # <<>>
              /\ HasTurn(appended[r.session], TurnOf(r))

\* a request that loaded its session after the link has loaded what the
\* durable row holds
C29_State ==
  LET r == proc[1]
      s == r.session
  IN (/\ r.kind = "query" /\ r.pc = "embed" /\ ~r.wrote_db
      /\ db[s].lead_id # None /\ s \notin torn) =>
       /\ Get(r.sd, "lead_id", None) = db[s].lead_id
       /\ r.hist = db[s].messages
       /\ r.qc = db[s].query_count + 1

\* a request on a linked session that returns a generated answer returns it
\* with requires_email = false
C29_Step ==
  LET r == proc[1]
  IN (/\ r.kind = "query" /\ r.pc = "cache_write" /\ proc'[1].pc = "done"
      /\ db[r.session].lead_id # None) =>
       ~proc'[1].response.requires_email

\* C29: a session that capture_lead linked to a lead, new or existing, keeps
\* its messages and its query_count: the next process_query on it loads the
\* messages and the query_count of the durable row, and it sees the lead_id,
\* so that the response it returns has requires_email = false.
C29_OnlyLeadIdChanges == []C29_State /\ [][C29_Step]_vars
====
